---- MODULE Spec2Model ----
(***************************************************************************)
(* Verification model of the multi-agent coordination tools:               *)
(*   task_queue       (src/unnamed/part_002)                               *)
(*   knowledge_store  (src/src/agents/tools/knowledge-store-tool.ts)       *)
(*   agent_board      (src/src/agents/tools/knowledge-store-tool.test.ts)  *)
(*                                                                         *)
(* Spec       the task queue, one tool call at a time                      *)
(* SpecConc   the task queue, tool calls interleaving at their awaits      *)
(* SpecStore  the knowledge store, one tool call at a time                 *)
(* SpecBoard  the message board, posts interleaving at their awaits        *)
(*   workflow_run     (src/src/agents/tools/workflow-tool.ts)              *)
(*   custom tools     (src/unnamed/part_001)                               *)
(*   session_template (src/src/agents/tools/session-template-tool.ts)      *)
(*                                                                         *)
(* SpecWorkflow  workflow_run, one call at a time, steps settling in any   *)
(*               order; SpecPoll the polling loop of one step execution    *)
(* SpecTools     createCustomTools, one call                               *)
(* SpecTemplate  session_template apply, one call at a time                *)
(* The other specifications restrict or extend these to the inputs of one  *)
(* property each; each is introduced where it is defined.                  *)
(***************************************************************************)
EXTENDS Integers, Sequences, FiniteSets, TLC

(***************************************************************************)
(* Bounds of the model.                                                    *)
(***************************************************************************)
\* number of steps (tool calls and clock ticks) of one run of the task queue
MaxSteps == 6
\* number of task_queue calls of one run in which the calls interleave
MaxCalls == 3
\* number of steps (tool calls and clock ticks) of one run of the knowledge store
MaxStoreSteps == 5
\* number of agent_board posts of one run
MaxPosts == 2
\* number of agent_board posts that can be in flight at once
MaxPosters == 2
\* largest value of the clock in a run of the message board
MaxBoardClock == 2
\* number of workflow_run calls of one run
MaxRuns == 2
\* number of executeStep calls of a run
MaxPollRuns == 2
\* number of configs of one createCustomTools call
MaxConfigs == 2
\* number of session_template apply calls of a run
MaxApplies == 2

(***************************************************************************)
(* Program constants.                                                      *)
(***************************************************************************)
\* add: readNumberParam(params, "maxRetries") ?? 3
DefaultMaxRetries == 3
\* read: readNumberParam(params, "limit") ?? 50
DefaultLimit == 50

\* an optional timestamp field that is undefined; also a number argument
\* that is not given
NoTime == 0 - 1
\* the id of no task (crypto.randomUUID never yields it)
NoId == 0
\* an optional string / unknown field that is undefined; also a string
\* argument that is not given
Undefined == "undefined"

Priorities == {"low", "normal", "high"}
\* the values of the maxRetries argument of add
MaxRetriesArgs == {0, 1, 2}
TaskStatus == {"pending", "claimed", "done", "failed"}

VARIABLES
  now,      \* Date.now()
  tasks,    \* .task-queue.json: QueueData.tasks, in insertion order
  nextId,   \* the next id crypto.randomUUID().slice(0, 8) yields
  qres,     \* the result record of the last task_queue call
  hist,     \* per task id: what has been done to it (history, not program state)
  steps,    \* number of steps taken (bounds the run)
  calls,    \* the task_queue calls in flight: where each is, and what it holds
  store,    \* .knowledge-store.json: category -> key -> entry (own properties)
  kres,     \* the result record of the last knowledge_store call
  lastSet,  \* per (category, key): the data of the last set since the last
            \* delete of that key (history, not program state)
  boards,   \* .agent-boards/: file name -> the messages of its lines, in order
  posters,  \* the agent_board posts in flight
  posted,   \* number of post calls made so far
  bres,     \* the result record of the last agent_board read
  cursor,   \* the time a caller of agent_board recorded, with the number of
            \* posts made by then (history, not program state)
  wfile,    \* checkpoints/workflow-<label>.json: the checkpoint, or none
  wck,      \* the checkpoint object of the workflow_run call in progress
  wrun,     \* the workflow_run call in progress: where it is, what it waits for
  wruns,    \* number of workflow_run calls made so far
  wspawn,   \* the steps the call in progress has spawned, in order (history)
  wres,     \* how the last workflow_run call returned, with the checkpoint
            \* object it held
  poll,     \* the executeStep call in progress: where it is, its deadline,
            \* the time of its last loop check and of its last poll
  ctools,   \* the last createCustomTools call: its arguments and its result
  tmpl      \* the last session_template apply call: its arguments, the
            \* gateway calls it made, in order, and its result

qvars == <<tasks, nextId, qres, hist>>
seqvars == <<qres, hist, steps>>
kvars == <<store, kres, lastSet>>
bvars == <<boards, posters, posted, bres, cursor>>
wvars == <<wfile, wck, wrun, wruns, wspawn, wres>>
xvars == <<poll, ctools, tmpl>>
vars == <<now, tasks, nextId, qres, hist, steps, calls, store, kres, lastSet,
         boards, posters, posted, bres, cursor, wfile, wck, wrun, wruns,
         wspawn, wres, poll, ctools, tmpl>>

(***************************************************************************)
(* task_queue: pure parts of the handlers.                                 *)
(***************************************************************************)
priorityOrder(p) ==
  CASE p = "high" -> 0 [] p = "normal" -> 1 [] p = "low" -> 2

\* a mutant of CompareTasks: the priority ranks are ignored
CompareTasksNoRank(a, b) == a.createdAt - b.createdAt

\* the comparator of claim's sort
CompareTasks(a, b) ==
  IF priorityOrder(a.priority) - priorityOrder(b.priority) # 0
  THEN priorityOrder(a.priority) - priorityOrder(b.priority)
  ELSE a.createdAt - b.createdAt

RECURSIVE InsertSorted(_, _, _)
\* Array.prototype.sort is stable: i goes after every element it does not precede
InsertSorted(q, i, s) ==
  IF s = <<>> THEN <<i>>
  ELSE IF CompareTasks(q[i], q[Head(s)]) < 0 THEN <<i>> \o s
  ELSE <<Head(s)>> \o InsertSorted(q, i, Tail(s))

RECURSIVE SortIndices(_, _)
SortIndices(q, s) ==
  IF s = <<>> THEN <<>>
  ELSE InsertSorted(q, s[Len(s)], SortIndices(q, SubSeq(s, 1, Len(s) - 1)))

RECURSIVE FilterPending(_, _)
\* the indices, in insertion order, of the tasks of q[i..] that are pending
FilterPending(q, i) ==
  IF i > Len(q) THEN <<>>
  ELSE IF q[i].status = "pending" THEN <<i>> \o FilterPending(q, i + 1)
  ELSE FilterPending(q, i + 1)

\* claim: queue.tasks.filter(pending).sort(...), as indices into queue.tasks
PendingSorted(q) == SortIndices(q, FilterPending(q, 1))

\* the find that yields the first task when no task has the id
FindTaskOrFirst(q, id) ==
  IF \E i \in 1..Len(q) : q[i].id = id
  THEN CHOOSE i \in 1..Len(q) : q[i].id = id /\ \A j \in 1..(i - 1) : q[j].id # id
  ELSE IF Len(q) > 0 THEN 1 ELSE 0

\* queue.tasks.find((t) => t.id === id): the first index, 0 when there is none
FindTask(q, id) ==
  IF \E i \in 1..Len(q) : q[i].id = id
  THEN CHOOSE i \in 1..Len(q) : q[i].id = id /\ \A j \in 1..(i - 1) : q[j].id # id
  ELSE 0

NewTask(id, priority, maxRetries, ts) ==
  [id |-> id, priority |-> priority, status |-> "pending", retries |-> 0,
   maxRetries |-> maxRetries, createdAt |-> ts, updatedAt |-> ts,
   claimedAt |-> NoTime, completedAt |-> NoTime,
   result |-> Undefined, error |-> Undefined]

ClaimTask(t, ts) ==
  [t EXCEPT !.status = "claimed", !.claimedAt = ts, !.updatedAt = ts]

CompleteTask(t, result, ts) ==
  [t EXCEPT !.status = "done", !.completedAt = ts, !.updatedAt = ts,
            !.result = result]

\* a mutant of FailTask: the retry test is <= instead of <
FailTaskOffByOne(t, error, ts) ==
  IF t.retries + 1 <= t.maxRetries
  THEN [t EXCEPT !.retries = @ + 1, !.error = error, !.updatedAt = ts,
                 !.status = "pending", !.claimedAt = NoTime]
  ELSE [t EXCEPT !.retries = @ + 1, !.error = error, !.updatedAt = ts,
                 !.status = "failed"]

\* a mutant of FailTask: the retry test is made before retries is incremented
FailTaskDecideFirst(t, error, ts) ==
  IF t.retries < t.maxRetries
  THEN [t EXCEPT !.retries = @ + 1, !.error = error, !.updatedAt = ts,
                 !.status = "pending", !.claimedAt = NoTime]
  ELSE [t EXCEPT !.retries = @ + 1, !.error = error, !.updatedAt = ts,
                 !.status = "failed"]

\* a mutant of FailTask: the auto-retry leaves the result status in the task
FailTaskRetrying(t, error, ts) ==
  IF t.retries + 1 < t.maxRetries
  THEN [t EXCEPT !.retries = @ + 1, !.error = error, !.updatedAt = ts,
                 !.status = "retrying", !.claimedAt = NoTime]
  ELSE [t EXCEPT !.retries = @ + 1, !.error = error, !.updatedAt = ts,
                 !.status = "failed"]

FailTask(t, error, ts) ==
  IF t.retries + 1 < t.maxRetries
  THEN [t EXCEPT !.retries = @ + 1, !.error = error, !.updatedAt = ts,
                 !.status = "pending", !.claimedAt = NoTime]
  ELSE [t EXCEPT !.retries = @ + 1, !.error = error, !.updatedAt = ts,
                 !.status = "failed"]

RetryTask(t, ts) ==
  [t EXCEPT !.status = "pending", !.claimedAt = NoTime, !.error = Undefined,
            !.updatedAt = ts]

\* the JSON result of a task_queue call (the fields a caller can tell calls by)
QResult(op, status, id, retries, error) ==
  [op |-> op, status |-> status, id |-> id, retries |-> retries, error |-> error]

\* history of one task: the number of 'retrying' results it got, and whether
\* anything but claim, or fail while claimed, was ever done to it
NoHist == [autoRetries |-> 0, offPath |-> FALSE]
\* the history of a task that left that path (its count is no longer kept)
OffPath == [autoRetries |-> 0, offPath |-> TRUE]

(***************************************************************************)
(* knowledge_store: pure parts of the handlers.                            *)
(*                                                                         *)
(* The document is a JSON object of JSON objects.  JSON.stringify writes   *)
(* the own enumerable properties of an object and JSON.parse builds plain  *)
(* objects that inherit from Object.prototype, so store[category][key]     *)
(* reads an own property when there is one and otherwise the property of   *)
(* that name of Object.prototype.  Objects are functions from their own    *)
(* property names to the values.  The payloads are JSON values (tool       *)
(* arguments arrive as JSON), which stringify and parse give back as they  *)
(* were.  Category names that Object.prototype has are not among the       *)
(* inputs; tags are left out.                                              *)
(***************************************************************************)
Categories == {"c1", "c2"}
\* property names every plain object inherits, each with a truthy value
InheritedKeys == {"__proto__", "constructor"}
Keys == {"k1"} \cup InheritedKeys
\* the data argument of set; Undefined is "not given"
DataArgs == {"d1", "d2", Undefined}

\* {}
EmptyObject == [k \in {} |-> Undefined]

\* store[category]?.[key]: an own entry, a value inherited from
\* Object.prototype (an object or a function: truthy, without data,
\* createdAt or updatedAt), or undefined
GetProp(st, category, key) ==
  IF category \notin DOMAIN st THEN [kind |-> "undefined"]
  ELSE IF key \in DOMAIN st[category]
       THEN [kind |-> "own", entry |-> st[category][key]]
  ELSE IF key \in InheritedKeys THEN [kind |-> "inherited"]
  ELSE [kind |-> "undefined"]

\* obj[key] = value, as JSON.stringify sees obj afterwards: assigning to
\* "__proto__" replaces the prototype and adds no own property
SetProp(obj, key, value) ==
  IF key = "__proto__" THEN obj
  ELSE [k \in DOMAIN obj \cup {key} |-> IF k = key THEN value ELSE obj[k]]

\* delete obj[key]: removes an own property, if there is one
DeleteProp(obj, key) == [k \in DOMAIN obj \ {key} |-> obj[k]]

\* the JSON result of a knowledge_store call; status "threw" when the
\* handler throws instead of returning
KResult(op, status, category, key, data) ==
  [op |-> op, status |-> status, category |-> category, key |-> key,
   data |-> data]

(***************************************************************************)
(* agent_board: pure parts of the handlers.                                *)
(*                                                                         *)
(* A board is a file of JSON lines; every line the tool appends parses, so *)
(* a file is the sequence of its messages.  The random suffix of a message *)
(* id, from and tags are left out.                                         *)
(***************************************************************************)
\* the board names of the calls; boardPath maps "a/b" and "a_b" to one file
BoardNames == {"a_b", "a/b", "c"}
Bodies == {"m1", "m2"}

\* the path that is the same for every board
BoardFileFlat(board) == "a_b"

\* boardPath: board.replace(/[^a-zA-Z0-9_-]/g, "_") + ".jsonl"
BoardFile(board) == IF board = "a/b" THEN "a_b" ELSE board

\* the since argument of read: not given, "last_read", a string Date cannot
\* parse, or the ISO form of a time in ms
NoSince == [kind |-> "none", ms |-> 0]
LastRead == [kind |-> "last_read", ms |-> 0]
BadSince == [kind |-> "invalid", ms |-> 0]
IsoSince(ms) == [kind |-> "iso", ms |-> ms]

\* a message; seq is the number of the post call that made it (history)
BoardMessage(board, body, ts, seq) ==
  [board |-> board, message |-> body, timestamp |-> ts, seq |-> seq]

\* readBoard: the messages of the file, [] when there is no file
ReadBoard(files, board) ==
  IF BoardFile(board) \in DOMAIN files THEN files[BoardFile(board)] ELSE <<>>

\* the filter with >= in place of >
RECURSIVE FilterSinceInclusive(_, _)
FilterSinceInclusive(msgs, sinceMs) ==
  IF msgs = <<>> THEN <<>>
  ELSE IF Head(msgs).timestamp >= sinceMs
       THEN <<Head(msgs)>> \o FilterSinceInclusive(Tail(msgs), sinceMs)
  ELSE FilterSinceInclusive(Tail(msgs), sinceMs)

\* messages.filter((m) => m.timestamp > sinceMs)
RECURSIVE FilterSince(_, _)
FilterSince(msgs, sinceMs) ==
  IF msgs = <<>> THEN <<>>
  ELSE IF Head(msgs).timestamp > sinceMs
       THEN <<Head(msgs)>> \o FilterSince(Tail(msgs), sinceMs)
  ELSE FilterSince(Tail(msgs), sinceMs)

\* messages.slice(-limit), limit >= 1
SliceLast(msgs, limit) ==
  IF Len(msgs) <= limit THEN msgs
  ELSE SubSeq(msgs, Len(msgs) - limit + 1, Len(msgs))

\* the read that leaves the limit out when since is "last_read"
ReadMessagesAllOnLastRead(files, board, since, limit) ==
  LET all == ReadBoard(files, board)
      kept == IF since.kind = "iso" THEN FilterSince(all, since.ms) ELSE all
  IN IF since.kind = "last_read" THEN kept ELSE SliceLast(kept, limit)

\* the messages a read returns
ReadMessages(files, board, since, limit) ==
  LET all == ReadBoard(files, board)
      kept == IF since.kind = "iso" THEN FilterSince(all, since.ms) ELSE all
  IN SliceLast(kept, limit)

\* a post call that is not running
IdlePost == [pc |-> "idle", msg |-> BoardMessage(Undefined, Undefined, 0, 0)]

\* the JSON result of an agent_board read, with the since and limit of the
\* call
BResult(op, board, since, limit, msgs) ==
  [op |-> op, board |-> board, since |-> since, limit |-> limit,
   messages |-> msgs]

\* no time recorded yet
NoCursor == [ms |-> NoTime, seen |-> 0]

\* a call that has not been made yet: nothing loaded, no record, no result
IdleCall ==
  [pc |-> "idle", op |-> "none", record |-> [id |-> NoId], queue |-> <<>>,
   status |-> "none", id |-> NoId]

(***************************************************************************)
(* workflow_run: pure parts of the engine.                                 *)
(*                                                                         *)
(* A checkpoint is {steps, completed, failed, status}; workflowId,         *)
(* pattern and the two times are written but never read, and are left out. *)
(* The result of a step is the number of the call that ran it; durationMs  *)
(* and the text of an error are left out.  All calls use one label, so one *)
(* checkpoint file.                                                        *)
(***************************************************************************)
Patterns == {"sequential", "parallel", "dag"}

\* the elements of a list
Range(list) == {list[i] : i \in DOMAIN list}

\* a step of a workflow: its name and the names in its dependsOn
WorkflowStep(name, dependsOn) == [name |-> name, dependsOn |-> dependsOn]

\* the workflows of the calls: three steps in a chain, one step with two
\* dependents, and a chain whose middle step has a name Object.prototype has
Chain ==
  <<WorkflowStep("A", {}), WorkflowStep("B", {"A"}), WorkflowStep("C", {"B"})>>
Fan ==
  <<WorkflowStep("A", {}), WorkflowStep("B", {"A"}), WorkflowStep("C", {"A"})>>
ProtoChain ==
  <<WorkflowStep("A", {}), WorkflowStep("constructor", {"A"}),
    WorkflowStep("C", {"constructor"})>>

\* steps.map((s) => s.name); the names hold no comma, so two lists have the
\* same join(",") exactly when they are equal
StepNames(stepList) == [i \in 1..Len(stepList) |-> stepList[i].name]

\* no checkpoint file: loadCheckpoint returns null
NoCheckpoint == [status |-> "missing"]

\* a fresh checkpoint
NewCheckpoint(stepList) ==
  [steps |-> StepNames(stepList), completed |-> EmptyObject,
   failed |-> EmptyObject, status |-> "in_progress"]

\* the load that adopts nothing
LoadOrCreateFresh(file, stepList, resume) == NewCheckpoint(stepList)

\* the checkpoint a call starts with: the file's, when resume is set and its
\* step names are the requested ones, otherwise a fresh one
LoadOrCreate(file, stepList, resume) ==
  LET existing == IF resume THEN file ELSE NoCheckpoint
  IN IF existing # NoCheckpoint /\ existing.steps = StepNames(stepList)
     THEN [existing EXCEPT !.status = "in_progress"]
     ELSE NewCheckpoint(stepList)

\* the call adopts the checkpoint of the file
Adopts(file, stepList, resume) ==
  resume /\ file # NoCheckpoint /\ file.steps = StepNames(stepList)

\* if (obj[key]): true for an own property (every stored value is an
\* object) and for a name inherited from Object.prototype
Truthy(obj, key) == key \in DOMAIN obj \/ key \in InheritedKeys

\* Object.keys(obj).length
KeyCount(obj) == Cardinality(DOMAIN obj)

\* the outcome of one step execution recorded in the checkpoint
RecordOutcome(ck, name, outcome, result) ==
  IF outcome = "fulfilled"
  THEN [ck EXCEPT !.completed = SetProp(@, name, result)]
  ELSE [ck EXCEPT !.failed = SetProp(@, name, "error")]

\* the loop over the results of Promise.allSettled
RECURSIVE RecordAll(_, _, _, _)
RecordAll(ck, names, outcome, result) ==
  IF names = <<>> THEN ck
  ELSE RecordAll(RecordOutcome(ck, Head(names), outcome[Head(names)], result),
                 Tail(names), outcome, result)

\* the names of the steps of a list
RECURSIVE NamesOf(_)
NamesOf(stepList) ==
  IF stepList = <<>> THEN <<>>
  ELSE <<Head(stepList).name>> \o NamesOf(Tail(stepList))

\* steps.filter(pred), pred given as the set of the steps it keeps
RECURSIVE FilterSteps(_, _)
FilterSteps(stepList, keep) ==
  IF stepList = <<>> THEN <<>>
  ELSE IF Head(stepList) \in keep
       THEN <<Head(stepList)>> \o FilterSteps(Tail(stepList), keep)
  ELSE FilterSteps(Tail(stepList), keep)

\* the loop that skips no step
NextToRunNoSkip(ck, stepList, i) == i

\* executeSequential: the first step at or after position i that the loop
\* does not skip, Len(steps) + 1 when there is none
RECURSIVE NextToRun(_, _, _)
NextToRun(ck, stepList, i) ==
  IF i > Len(stepList) THEN i
  ELSE IF Truthy(ck.completed, stepList[i].name)
       THEN NextToRun(ck, stepList, i + 1)
  ELSE i

\* executeParallel: steps.filter((s) => !checkpoint.completed[s.name])
ParallelPending(ck, stepList) ==
  FilterSteps(stepList,
    {s \in Range(stepList) : ~Truthy(ck.completed, s.name)})

\* the filter that takes every step neither completed nor failed for ready
DagReadyNoDeps(ck, stepList) ==
  FilterSteps(stepList,
    {s \in Range(stepList) :
       ~(Truthy(ck.completed, s.name) \/ Truthy(ck.failed, s.name))})

\* executeDag: the steps neither completed nor failed whose dependencies
\* are all completed
DagReady(ck, stepList) ==
  FilterSteps(stepList,
    {s \in Range(stepList) :
       /\ ~(Truthy(ck.completed, s.name) \/ Truthy(ck.failed, s.name))
       /\ \A d \in s.dependsOn : Truthy(ck.completed, d)})

\* the loop that runs one round too many and does not stop on an empty
\* ready list
DagContinuesOneMore(ck, stepList, iter) == iter <= Len(stepList)

\* executeDag: the loop makes another round (iter counts from 0)
DagContinues(ck, stepList, iter) ==
  iter < Len(stepList) /\ DagReady(ck, stepList) # <<>>

\* executeSequential: the status after the loop
SequentialStatus(ck) == "done"

\* executeParallel: the final status
ParallelStatus(ck) == IF KeyCount(ck.failed) > 0 THEN "failed" ELSE "done"

\* executeDag: the final status; stuck = failed
DagStatus(ck, stepList) ==
  IF KeyCount(ck.completed) + KeyCount(ck.failed) = Len(stepList)
  THEN IF KeyCount(ck.failed) > 0 THEN "failed" ELSE "done"
  ELSE "failed"

\* the cleanup that unlinks nothing
AfterCleanupKeeps(file, ck) == file

\* execute: if (checkpoint.status === "done") fs.unlink(checkpointPath)
AfterCleanup(file, ck) == IF ck.status = "done" THEN NoCheckpoint ELSE file

\* execute: cfg.agents?.defaults?.subagents?.maxSpawnDepth ?? 1
DefaultMaxSpawnDepth == 1

\* execute: cfg.agents?.defaults?.subagents?.maxChildrenPerAgent ?? 5
DefaultMaxChildren == 5

\* three steps without dependencies
Flat ==
  <<WorkflowStep("A", {}), WorkflowStep("B", {}), WorkflowStep("C", {})>>

\* params.steps ?? []: a request without steps
NoSteps == <<>>

\* a request with the same step name twice
Duplicate == <<WorkflowStep("A", {}), WorkflowStep("A", {})>>

\* a request with a dependency on a step that is not in the list
UnknownDep == <<WorkflowStep("A", {}), WorkflowStep("B", {"Z"})>>

\* execute: names.has(s.name) for a step after the first of that name
HasDuplicate(stepList) ==
  \E i, j \in DOMAIN stepList : i < j /\ stepList[i].name = stepList[j].name

\* execute: !names.has(dep) for a dependency of some step
HasUnknownDep(stepList) ==
  \E i \in DOMAIN stepList :
    \E dep \in stepList[i].dependsOn : dep \notin Range(StepNames(stepList))

\* execute: the validation of the steps, in the order of the code
Validate(pattern, stepList) ==
  IF Len(stepList) = 0 THEN "no_steps"
  ELSE IF HasDuplicate(stepList) THEN "duplicate"
  ELSE IF pattern = "dag" /\ HasUnknownDep(stepList) THEN "unknown_dep"
  ELSE "ok"

\* the admission that never looks at the number of steps
AdmitAnyWidth(pattern, stepList, callerDepth, maxSpawnDepth, maxChildren) ==
  IF Validate(pattern, stepList) # "ok"
  THEN [status |-> "error", error |-> Validate(pattern, stepList)]
  ELSE IF callerDepth >= maxSpawnDepth
  THEN [status |-> "forbidden", error |-> "depth"]
  ELSE [status |-> "ok", error |-> "none"]

\* execute: validation, then the depth check, then the check of the number
\* of steps, which rejects the parallel pattern only
Admit(pattern, stepList, callerDepth, maxSpawnDepth, maxChildren) ==
  IF Validate(pattern, stepList) # "ok"
  THEN [status |-> "error", error |-> Validate(pattern, stepList)]
  ELSE IF callerDepth >= maxSpawnDepth
  THEN [status |-> "forbidden", error |-> "depth"]
  ELSE IF /\ Len(stepList) > maxChildren
          /\ pattern = "parallel"
          /\ Len(stepList) > maxChildren
  THEN [status |-> "forbidden", error |-> "children"]
  ELSE [status |-> "ok", error |-> "none"]

\* no workflow_run call in progress
NoRun ==
  [pc |-> "idle", after |-> "idle", guarded |-> FALSE, pattern |-> "none",
   steps |-> <<>>, resume |-> FALSE, resumed |-> FALSE, iter |-> 0,
   flight |-> <<>>, maxChildren |-> DefaultMaxChildren,
   outcome |-> EmptyObject]

\* the steps of a list in flight, none settled
InFlight(run, stepList) ==
  [run EXCEPT !.flight = NamesOf(stepList),
              !.outcome = [n \in Range(NamesOf(stepList)) |-> "running"]]

\* every step in flight has settled
AllSettled(run) == \A n \in DOMAIN run.outcome : run.outcome[n] # "running"

\* the checkpoint is to be saved, and the call goes on at 'after'
ToSave(run, after) ==
  [run EXCEPT !.pc = "save", !.after = after, !.flight = <<>>,
              !.outcome = EmptyObject]

\* the result of a workflow_run call: the status, whether it names the
\* checkpoint path, and the checkpoint object the call held
WResult(status, ck, run) ==
  [status |-> status, checkpoint |-> ck, pattern |-> run.pattern,
   resumed |-> run.resumed, rounds |-> run.iter,
   stepsCompleted |-> KeyCount(ck.completed),
   stepsFailed |-> KeyCount(ck.failed), totalSteps |-> Len(run.steps),
   hasFailures |-> KeyCount(ck.failed) > 0,
   hasCheckpoint |-> status # "done"]

(***************************************************************************)
(* task_queue: the handlers, one tool call each.                           *)
(***************************************************************************)
\* no executeStep call in progress
NoPoll ==
  [pc |-> "idle", runs |-> 0, deadline |-> 0, checkedAt |-> 0,
   polledAt |-> 0, outcome |-> "none"]

\* no createCustomTools call made
NoTools ==
  [pc |-> "idle", configs |-> <<>>, existing |-> {}, tools |-> <<>>]

\* no session_template apply call made
NoApply ==
  [pc |-> "idle", runs |-> 0, defined |-> FALSE, template |-> Undefined,
   model |-> Undefined, thinking |-> Undefined, keyParam |-> Undefined,
   agentKey |-> Undefined, sessionKey |-> Undefined, gateway |-> <<>>,
   applied |-> <<>>, rejected |-> {}, status |-> "none"]

Init ==
  /\ now = 0
  /\ steps = 0
  /\ tasks = <<>>
  /\ nextId = 1
  /\ qres = QResult("none", "none", NoId, 0, Undefined)
  /\ hist = [i \in 1..(MaxSteps + 1) |-> NoHist]
  /\ calls = [c \in 1..MaxCalls |-> IdleCall]
  /\ store = EmptyObject
  /\ kres = KResult("none", "none", Undefined, Undefined, Undefined)
  /\ lastSet = [c \in Categories, k \in Keys |-> Undefined]
  /\ boards = EmptyObject
  /\ posters = [p \in 1..MaxPosters |-> IdlePost]
  /\ posted = 0
  /\ bres = BResult("none", Undefined, NoSince, DefaultLimit, <<>>)
  /\ cursor = NoCursor
  /\ wfile = NoCheckpoint
  /\ wck = NoCheckpoint
  /\ wrun = NoRun
  /\ wruns = 0
  /\ wspawn = <<>>
  /\ wres = [status |-> "none"]
  /\ poll = NoPoll
  /\ ctools = NoTools
  /\ tmpl = NoApply

\* one more step of the run
Step == steps < MaxSteps /\ steps' = steps + 1

\* a millisecond passes
Tick ==
  /\ Step
  /\ now' = now + 1
  /\ UNCHANGED <<qvars, calls, kvars, bvars, wvars, xvars>>

Add(priorityArg, maxRetriesArg) ==
  /\ Step
  /\ LET priority == IF priorityArg = Undefined THEN "normal" ELSE priorityArg
         maxRetries == IF maxRetriesArg = NoTime THEN DefaultMaxRetries
                       ELSE maxRetriesArg
     IN /\ tasks' = Append(tasks, NewTask(nextId, priority, maxRetries, now))
        /\ qres' = QResult("add", "added", nextId, 0, Undefined)
  /\ nextId' = nextId + 1
  /\ UNCHANGED <<now, hist, calls, kvars, bvars, wvars, xvars>>

Claim ==
  /\ Step
  /\ LET pending == PendingSorted(tasks)
     IN IF pending = <<>>
        THEN /\ qres' = QResult("claim", "empty", NoId, 0, Undefined)
             /\ UNCHANGED tasks
        ELSE LET i == pending[1]
             IN /\ tasks' = [tasks EXCEPT ![i] = ClaimTask(@, now)]
                /\ qres' = QResult("claim", "claimed", tasks[i].id,
                                   tasks[i].retries, Undefined)
  /\ UNCHANGED <<now, nextId, hist, calls, kvars, bvars, wvars, xvars>>

Complete(id, result) ==
  /\ Step
  /\ LET i == FindTask(tasks, id)
     IN IF i = 0
        THEN /\ qres' = QResult("complete", "not_found", id, 0, Undefined)
             /\ UNCHANGED <<tasks, hist>>
        ELSE /\ tasks' = [tasks EXCEPT ![i] = CompleteTask(@, result, now)]
             /\ qres' = QResult("complete", "completed", id, 0, Undefined)
             /\ hist' = [hist EXCEPT ![id] = OffPath]
  /\ UNCHANGED <<now, nextId, calls, kvars, bvars, wvars, xvars>>

Fail(id, errorArg) ==
  /\ Step
  /\ LET i == FindTask(tasks, id)
         error == IF errorArg = Undefined THEN "Unknown error" ELSE errorArg
     IN IF i = 0
        THEN /\ qres' = QResult("fail", "not_found", id, 0, Undefined)
             /\ UNCHANGED <<tasks, hist>>
        ELSE /\ tasks' = [tasks EXCEPT ![i] = FailTask(@, error, now)]
             /\ qres' = IF tasks'[i].status = "pending"
                        THEN QResult("fail", "retrying", id, tasks'[i].retries,
                                     Undefined)
                        ELSE QResult("fail", "failed", id, tasks'[i].retries, error)
             /\ hist' = [hist EXCEPT ![id] =
                  IF @.offPath \/ tasks[i].status # "claimed" THEN OffPath
                  ELSE [@ EXCEPT !.autoRetries =
                          IF tasks'[i].status = "pending" THEN @ + 1 ELSE @]]
  /\ UNCHANGED <<now, nextId, calls, kvars, bvars, wvars, xvars>>

Retry(id) ==
  /\ Step
  /\ LET i == FindTask(tasks, id)
     IN IF i = 0
        THEN /\ qres' = QResult("retry", "not_found", id, 0, Undefined)
             /\ UNCHANGED <<tasks, hist>>
        ELSE /\ tasks' = [tasks EXCEPT ![i] = RetryTask(@, now)]
             /\ qres' = QResult("retry", "reset_to_pending", id, 0, Undefined)
             /\ hist' = [hist EXCEPT ![id] = OffPath]
  /\ UNCHANGED <<now, nextId, calls, kvars, bvars, wvars, xvars>>

\* clear: readNumberParam(params, "olderThanHours") ?? 24
DefaultOlderThanHours == 24

\* clear: 60 * 60 * 1000, the milliseconds of an hour
HourMs == 3600000

\* clear: Date.now() - olderThanHours * 60 * 60 * 1000; the argument is
\* given by its product with HourMs (the schema takes any number >= 0),
\* NoTime is "not given"
Cutoff(ts, olderThanMs) ==
  ts - (IF olderThanMs = NoTime THEN DefaultOlderThanHours * HourMs
        ELSE olderThanMs)

\* the filter that also keeps a task updated at the cutoff
KeepOnClearAtCutoff(t, cutoff) ==
  t.status = "pending" \/ t.status = "claimed" \/ t.updatedAt >= cutoff

\* clear: the predicate of queue.tasks.filter
KeepOnClear(t, cutoff) ==
  t.status = "pending" \/ t.status = "claimed" \/ t.updatedAt > cutoff

\* clear: queue.tasks.filter(...)
ClearTasks(q, cutoff) == SelectSeq(q, LAMBDA t : KeepOnClear(t, cutoff))

\* the JSON result of clear
ClearResult(removed, remaining) ==
  [op |-> "clear", status |-> "cleared", removed |-> removed,
   remaining |-> remaining]

Clear(olderThanMs) ==
  /\ Step
  /\ tasks' = ClearTasks(tasks, Cutoff(now, olderThanMs))
  /\ qres' = ClearResult(Len(tasks) - Len(tasks'), Len(tasks'))
  /\ UNCHANGED <<now, nextId, hist, calls, kvars, bvars, wvars, xvars>>

\* the ids a caller passes: every id handed out so far, and one that is not
IdArgs == 0..(nextId - 1)

\* whether the task with this id has this status
HasStatus(id, status) ==
  FindTask(tasks, id) # 0 /\ tasks[FindTask(tasks, id)].status = status

(***************************************************************************)
(* Spec: any sequence of calls; tasks differ in maxRetries.                *)
(***************************************************************************)
Next ==
  \/ Tick
  \/ \E m \in MaxRetriesArgs : Add(Undefined, m)
  \/ Claim
  \/ \E id \in IdArgs : Complete(id, "ok")
  \/ \E id \in IdArgs : Fail(id, "err")
  \/ \E id \in IdArgs : Retry(id)

Spec == Init /\ [][Next]_vars

(***************************************************************************)
(* SpecPriority: any sequence of calls; tasks differ in priority and take  *)
(* the default maxRetries; result and error are not given.                 *)
(***************************************************************************)
NextPriority ==
  \/ Tick
  \/ \E p \in Priorities : Add(p, NoTime)
  \/ Claim
  \/ \E id \in IdArgs : Complete(id, Undefined)
  \/ \E id \in IdArgs : Fail(id, Undefined)
  \/ \E id \in IdArgs : Retry(id)

SpecPriority == Init /\ [][NextPriority]_vars

(***************************************************************************)
(* SpecProper: the callers keep to the tool description: complete and fail *)
(* name a claimed task, retry names a failed task.                         *)
(***************************************************************************)
NextProper ==
  \/ Tick
  \/ \E m \in MaxRetriesArgs : Add(Undefined, m)
  \/ Claim
  \/ \E id \in IdArgs : HasStatus(id, "claimed") /\ Complete(id, "ok")
  \/ \E id \in IdArgs : HasStatus(id, "claimed") /\ Fail(id, "err")
  \/ \E id \in IdArgs : HasStatus(id, "failed") /\ Retry(id)

SpecProper == Init /\ [][NextProper]_vars

(***************************************************************************)
(* SpecClear: calls that follow the life cycle, and clear; a failed call   *)
(* of a task with maxRetries 0 leaves it failed.                           *)
(***************************************************************************)
\* olderThanHours times HourMs: not given, 0, one and two milliseconds
OlderThanArgs == {NoTime, 0, 1, 2}

NextClear ==
  \/ Tick
  \/ Add(Undefined, 0)
  \/ Claim
  \/ \E id \in IdArgs : HasStatus(id, "claimed") /\ Complete(id, "ok")
  \/ \E id \in IdArgs : HasStatus(id, "claimed") /\ Fail(id, "err")
  \/ \E h \in OlderThanArgs : Clear(h)

SpecClear == Init /\ [][NextClear]_vars

(***************************************************************************)
(* SpecConc: task_queue calls whose executions interleave.  A handler runs *)
(* to its next await and then any other call may run: add and claim await  *)
(* loadQueue (fs.readFile) and then saveQueue (fs.writeFile).  There is no *)
(* lock in the module.  fs.writeFile opens the file with flag 'w', which   *)
(* truncates it, and writes the text afterwards; a loadQueue in between    *)
(* reads an empty file, fails to parse it and yields { tasks: [] }.        *)
(***************************************************************************)
\* add runs up to 'await loadQueue()': the record is built with a fresh id
CallAdd(c, priorityArg, maxRetriesArg) ==
  /\ calls[c].pc = "idle"
  /\ LET priority == IF priorityArg = Undefined THEN "normal" ELSE priorityArg
         maxRetries == IF maxRetriesArg = NoTime THEN DefaultMaxRetries
                       ELSE maxRetriesArg
     IN calls' = [calls EXCEPT ![c] =
          [@ EXCEPT !.pc = "load", !.op = "add",
                    !.record = NewTask(nextId, priority, maxRetries, now)]]
  /\ nextId' = nextId + 1
  /\ UNCHANGED <<now, tasks, seqvars, kvars, bvars, wvars, xvars>>

\* claim runs up to 'await loadQueue()'
CallClaim(c) ==
  /\ calls[c].pc = "idle"
  /\ calls' = [calls EXCEPT ![c] = [@ EXCEPT !.pc = "load", !.op = "claim"]]
  /\ UNCHANGED <<now, tasks, nextId, seqvars, kvars, bvars, wvars, xvars>>

\* loadQueue settles with what the file holds now; the handler runs on to
\* 'await saveQueue(queue)', or returns when claim finds nothing pending
Loaded(c) ==
  /\ calls[c].pc = "load"
  /\ IF calls[c].op = "add"
     THEN calls' = [calls EXCEPT ![c] =
            [@ EXCEPT !.pc = "save", !.queue = Append(tasks, calls[c].record)]]
     ELSE LET pending == PendingSorted(tasks)
          IN IF pending = <<>>
             THEN calls' = [calls EXCEPT ![c] =
                    [@ EXCEPT !.pc = "done", !.status = "empty"]]
             ELSE calls' = [calls EXCEPT ![c] =
                    [@ EXCEPT !.pc = "save", !.id = tasks[pending[1]].id,
                       !.queue = [tasks EXCEPT ![pending[1]] = ClaimTask(@, now)]]]
  /\ UNCHANGED <<now, tasks, nextId, seqvars, kvars, bvars, wvars, xvars>>

\* fs.writeFile opens the file: it is truncated
SaveOpen(c) ==
  /\ calls[c].pc = "save"
  /\ tasks' = <<>>
  /\ calls' = [calls EXCEPT ![c] = [@ EXCEPT !.pc = "write"]]
  /\ UNCHANGED <<now, nextId, seqvars, kvars, bvars, wvars, xvars>>

\* fs.writeFile writes the text; saveQueue settles and the handler returns
SaveWrite(c) ==
  /\ calls[c].pc = "write"
  /\ tasks' = calls[c].queue
  /\ calls' = [calls EXCEPT ![c] =
       [@ EXCEPT !.pc = "done",
                 !.status = IF calls[c].op = "add" THEN "added" ELSE "claimed",
                 !.id = IF calls[c].op = "add" THEN calls[c].record.id ELSE @]]
  /\ UNCHANGED <<now, nextId, seqvars, kvars, bvars, wvars, xvars>>

NextConc ==
  \/ \E c \in 1..MaxCalls, p \in {Undefined, "high"} : CallAdd(c, p, NoTime)
  \/ \E c \in 1..MaxCalls : CallClaim(c)
  \/ \E c \in 1..MaxCalls : Loaded(c)
  \/ \E c \in 1..MaxCalls : SaveOpen(c)
  \/ \E c \in 1..MaxCalls : SaveWrite(c)

SpecConc == Init /\ [][NextConc]_vars

(***************************************************************************)
(* SpecStore: the knowledge store, one tool call at a time.                *)
(***************************************************************************)
StoreStep == steps < MaxStoreSteps /\ steps' = steps + 1

StoreTick ==
  /\ StoreStep
  /\ now' = now + 1
  /\ UNCHANGED <<qvars, calls, kvars, bvars, wvars, xvars>>

Set(category, key, data) ==
  /\ StoreStep
  /\ IF data = Undefined
     THEN /\ kres' = KResult("set", "error", category, key, Undefined)
          /\ UNCHANGED <<store, lastSet>>
     ELSE LET \* if (!store[category]) store[category] = {}
              obj == IF category \in DOMAIN store THEN store[category]
                     ELSE EmptyObject
              existing == GetProp(SetProp(store, category, obj), category, key)
              entry == [data |-> data,
                        createdAt |-> IF existing.kind = "own"
                                      THEN existing.entry.createdAt ELSE now,
                        updatedAt |-> now]
          IN /\ store' = SetProp(store, category, SetProp(obj, key, entry))
             /\ kres' = KResult("set",
                                IF existing.kind # "undefined" THEN "updated"
                                ELSE "created",
                                category, key, Undefined)
             /\ lastSet' = [lastSet EXCEPT ![category, key] = data]
  /\ UNCHANGED <<now, qvars, calls, bvars, wvars, xvars>>

Get(category, key) ==
  /\ StoreStep
  /\ LET entry == GetProp(store, category, key)
     IN kres' =
          IF entry.kind = "undefined"
          THEN KResult("get", "not_found", category, key, Undefined)
          ELSE IF entry.kind = "own"
          THEN KResult("get", "ok", category, key, entry.entry.data)
          \* new Date(undefined).toISOString() throws RangeError
          ELSE KResult("get", "threw", category, key, Undefined)
  /\ UNCHANGED <<now, qvars, calls, store, lastSet, bvars, wvars, xvars>>

Delete(category, key) ==
  /\ StoreStep
  /\ IF GetProp(store, category, key).kind = "undefined"
     THEN /\ kres' = KResult("delete", "not_found", category, key, Undefined)
          /\ UNCHANGED store
     ELSE LET obj == DeleteProp(store[category], key)
          IN /\ store' = IF DOMAIN obj = {} THEN DeleteProp(store, category)
                         ELSE SetProp(store, category, obj)
             /\ kres' = KResult("delete", "deleted", category, key, Undefined)
  /\ lastSet' = [lastSet EXCEPT ![category, key] = Undefined]
  /\ UNCHANGED <<now, qvars, calls, bvars, wvars, xvars>>

NextStore ==
  \/ StoreTick
  \/ \E c \in Categories, k \in Keys, d \in DataArgs : Set(c, k, d)
  \/ \E c \in Categories, k \in Keys : Get(c, k)
  \/ \E c \in Categories, k \in Keys : Delete(c, k)

SpecStore == Init /\ [][NextStore]_vars

(***************************************************************************)
(* SpecBoard: the message board.  A post builds its message, with          *)
(* timestamp Date.now(), and then awaits ensureBoardDir and fs.appendFile; *)
(* other calls run in between.  A read awaits one fs.readFile.             *)
(***************************************************************************)
BoardTick ==
  /\ now < MaxBoardClock
  /\ now' = now + 1
  /\ UNCHANGED <<qvars, seqvars, calls, kvars, bvars, wvars, xvars>>

\* post runs up to 'await appendToBoard(board, msg)'
PostStart(p, board, body) ==
  /\ posted < MaxPosts
  /\ posters[p].pc = "idle"
  /\ posted' = posted + 1
  /\ posters' = [posters EXCEPT ![p] =
       [pc |-> "append", msg |-> BoardMessage(board, body, now, posted + 1)]]
  /\ UNCHANGED <<now, qvars, seqvars, calls, kvars, wvars, xvars, boards, bres, cursor>>

\* fs.appendFile adds the line; the post returns
PostAppend(p) ==
  /\ posters[p].pc = "append"
  /\ boards' = SetProp(boards, BoardFile(posters[p].msg.board),
                       Append(ReadBoard(boards, posters[p].msg.board),
                              posters[p].msg))
  /\ posters' = [posters EXCEPT ![p] = IdlePost]
  /\ UNCHANGED <<now, qvars, seqvars, calls, kvars, wvars, xvars, posted, bres, cursor>>

Read(board, since, limitArg) ==
  /\ LET limit == IF limitArg = NoTime THEN DefaultLimit ELSE limitArg
     IN bres' = BResult("read", board, since, limit,
                        ReadMessages(boards, board, since, limit))
  /\ UNCHANGED <<now, qvars, seqvars, calls, kvars, wvars, xvars, boards, posters, posted,
                 cursor>>

NextBoard ==
  \/ BoardTick
  \/ \E p \in 1..MaxPosters, b \in BoardNames, m \in Bodies : PostStart(p, b, m)
  \/ \E p \in 1..MaxPosters : PostAppend(p)
  \/ \E b \in BoardNames, l \in {NoTime, 1} : Read(b, NoSince, l)

SpecBoard == Init /\ [][NextBoard]_vars

(***************************************************************************)
(* SpecBoardSince: the message board read with a since argument.  A caller *)
(* records T = new Date().toISOString() between the posts and passes it to *)
(* the later reads.                                                        *)
(***************************************************************************)
\* the caller records the time: const midpoint = new Date().toISOString()
MarkCursor ==
  /\ cursor' = [ms |-> now, seen |-> posted]
  /\ UNCHANGED <<now, qvars, seqvars, calls, kvars, wvars, xvars, boards, posters, posted,
                 bres>>

\* the boards of the calls with a since argument: two names of one file
SinceBoards == {"a_b", "a/b"}

\* the posts take the first free slot; which slot a post runs in makes no
\* difference to the files
FirstIdle(p) == \A q \in 1..(p - 1) : posters[q].pc # "idle"

NextBoardSince ==
  \/ BoardTick
  \/ \E p \in 1..MaxPosters, b \in SinceBoards :
       FirstIdle(p) /\ PostStart(p, b, "m1")
  \/ \E p \in 1..MaxPosters : PostAppend(p)
  \/ cursor = NoCursor /\ MarkCursor
  \/ \E b \in SinceBoards, l \in {NoTime, 1} :
       cursor # NoCursor /\ Read(b, IsoSince(cursor.ms), l)

SpecBoardSince == Init /\ [][NextBoardSince]_vars

(***************************************************************************)
(* SpecBoardClear: the message board with posts, reads without since, and  *)
(* clear.                                                                  *)
(***************************************************************************)
\* the unlink that removes nothing
UnlinkBoardKeeps(files, board) == files

\* clear: fs.unlink(boardPath(board))
UnlinkBoard(files, board) == DeleteProp(files, BoardFile(board))

\* the JSON result of clear: "cleared", or "ok" with a note when unlink
\* throws because there is no file
BClearResult(board, status) == [op |-> "clear", board |-> board, status |-> status]

BoardClear(board) ==
  /\ IF BoardFile(board) \in DOMAIN boards
     THEN /\ boards' = UnlinkBoard(boards, board)
          /\ bres' = BClearResult(board, "cleared")
     ELSE /\ bres' = BClearResult(board, "ok")
          /\ UNCHANGED boards
  /\ UNCHANGED <<now, qvars, seqvars, calls, kvars, wvars, xvars, posters, posted,
                 cursor>>

NextBoardClear ==
  \/ \E p \in 1..MaxPosters, b \in BoardNames :
       FirstIdle(p) /\ PostStart(p, b, "m1")
  \/ \E p \in 1..MaxPosters : PostAppend(p)
  \/ \E b \in BoardNames, l \in {NoTime, 1} : Read(b, NoSince, l)
  \/ \E b \in BoardNames : BoardClear(b)

SpecBoardClear == Init /\ [][NextBoardClear]_vars

(***************************************************************************)
(* SpecBoardLastRead: the message board read with since = "last_read",    *)
(* with the default limit and with limit 1.                                *)
(***************************************************************************)
NextBoardLastRead ==
  \/ BoardTick
  \/ \E p \in 1..MaxPosters, b \in SinceBoards :
       FirstIdle(p) /\ PostStart(p, b, "m1")
  \/ \E p \in 1..MaxPosters : PostAppend(p)
  \/ \E b \in SinceBoards, l \in {NoTime, 1} : Read(b, LastRead, l)

SpecBoardLastRead == Init /\ [][NextBoardLastRead]_vars

(***************************************************************************)
(* SpecWorkflow: workflow_run, one call at a time.  A call is a sequence   *)
(* of steps of the engine; the executions of the steps in flight settle    *)
(* one by one, in any order, each fulfilled or rejected.  A checkpoint     *)
(* write inside the try block of execute may throw.                        *)
(***************************************************************************)
\* execute, up to the first saveCheckpoint: a rejected request returns at
\* once; an admitted one loads or creates the checkpoint
WorkflowCall(pattern, stepList, resume, callerDepth, maxSpawnDepth, maxChildren) ==
  /\ wrun.pc = "idle"
  /\ wruns < MaxRuns
  /\ wruns' = wruns + 1
  /\ wspawn' = <<>>
  /\ LET admit == Admit(pattern, stepList, callerDepth, maxSpawnDepth,
                        maxChildren)
     IN IF admit.status = "ok"
        THEN /\ wck' = LoadOrCreate(wfile, stepList, resume)
             /\ wrun' = [NoRun EXCEPT !.pc = "save", !.after = pattern,
                                      !.pattern = pattern,
                                      !.steps = stepList,
                                      !.resume = resume,
                                      !.resumed =
                                         Adopts(wfile, stepList, resume),
                                      !.maxChildren = maxChildren]
             /\ UNCHANGED wres
        ELSE /\ wres' = admit
             /\ UNCHANGED <<wck, wrun>>
  /\ UNCHANGED <<now, qvars, steps, calls, kvars, bvars, xvars, wfile>>

\* a call by the main agent under the default configuration
WorkflowStart(pattern, stepList, resume) ==
  WorkflowCall(pattern, stepList, resume, 0, DefaultMaxSpawnDepth,
               DefaultMaxChildren)

\* saveCheckpoint: fs.writeFile of the checkpoint object
SaveCheckpoint ==
  /\ wrun.pc = "save"
  /\ wfile' = wck
  /\ wrun' = [wrun EXCEPT !.pc = wrun.after, !.guarded = TRUE]
  /\ UNCHANGED <<now, qvars, steps, calls, kvars, bvars, xvars, wck, wruns, wspawn,
                 wres>>

\* saveCheckpoint throws inside the try block: the catch records _workflow,
\* saves and returns an error result
SaveThrows ==
  /\ wrun.pc = "save"
  /\ wrun.guarded
  /\ wck' = [wck EXCEPT !.status = "failed",
                        !.failed = SetProp(@, "_workflow", "error")]
  /\ wfile' = wck'
  /\ wres' = WResult("error", wck', wrun)
  /\ wrun' = NoRun
  /\ UNCHANGED <<now, qvars, steps, calls, kvars, bvars, xvars, wruns, wspawn>>

\* the execution of a step in flight settles
StepSettles(name, outcome) ==
  /\ wrun.pc \in {"sequential_wait", "parallel_wait", "dag_wait"}
  /\ name \in DOMAIN wrun.outcome
  /\ wrun.outcome[name] = "running"
  /\ wrun' = [wrun EXCEPT !.outcome[name] = outcome]
  /\ UNCHANGED <<now, qvars, steps, calls, kvars, bvars, xvars, wfile, wck, wruns,
                 wspawn, wres>>

\* executeSequential: the loop skips the completed steps and runs the next
\* one; after the last step the status is done
SequentialNext ==
  /\ wrun.pc = "sequential"
  /\ LET i == NextToRun(wck, wrun.steps, wrun.iter + 1)
     IN IF i > Len(wrun.steps)
        THEN /\ wck' = [wck EXCEPT !.status = SequentialStatus(wck)]
             /\ wrun' = ToSave(wrun, "return")
             /\ UNCHANGED wspawn
        ELSE /\ wrun' = [InFlight(wrun, <<wrun.steps[i]>>) EXCEPT
                           !.pc = "sequential_wait", !.iter = i]
             /\ wspawn' = Append(wspawn, wrun.steps[i].name)
             /\ UNCHANGED wck
  /\ UNCHANGED <<now, qvars, steps, calls, kvars, bvars, xvars, wfile, wruns, wres>>

\* executeSequential: the step has settled; a failure ends the loop
SequentialRecord ==
  /\ wrun.pc = "sequential_wait"
  /\ AllSettled(wrun)
  /\ LET name == wrun.flight[1]
     IN IF wrun.outcome[name] = "fulfilled"
        THEN /\ wck' = RecordOutcome(wck, name, "fulfilled", wruns)
             /\ wrun' = ToSave(wrun, "sequential")
        ELSE /\ wck' = [RecordOutcome(wck, name, "rejected", wruns)
                          EXCEPT !.status = "failed"]
             /\ wrun' = ToSave(wrun, "return")
  /\ UNCHANGED <<now, qvars, steps, calls, kvars, bvars, xvars, wfile, wruns, wspawn,
                 wres>>

\* executeParallel: every step not completed is launched
ParallelLaunch ==
  /\ wrun.pc = "parallel"
  /\ LET pending == ParallelPending(wck, wrun.steps)
     IN /\ wrun' = [InFlight(wrun, pending) EXCEPT !.pc = "parallel_wait"]
        /\ wspawn' = wspawn \o NamesOf(pending)
  /\ UNCHANGED <<now, qvars, steps, calls, kvars, bvars, xvars, wfile, wck, wruns,
                 wres>>

\* executeParallel: Promise.allSettled has resolved; the outcomes are
\* recorded and the status is set
ParallelRecord ==
  /\ wrun.pc = "parallel_wait"
  /\ AllSettled(wrun)
  /\ LET ck == RecordAll(wck, wrun.flight, wrun.outcome, wruns)
     IN wck' = [ck EXCEPT !.status = ParallelStatus(ck)]
  /\ wrun' = ToSave(wrun, "return")
  /\ UNCHANGED <<now, qvars, steps, calls, kvars, bvars, xvars, wfile, wruns, wspawn,
                 wres>>

\* executeDag: one more round launches the ready steps; otherwise the loop
\* ends and the status is set
DagRound ==
  /\ wrun.pc = "dag"
  /\ IF DagContinues(wck, wrun.steps, wrun.iter)
     THEN LET ready == DagReady(wck, wrun.steps)
          IN /\ wrun' = [InFlight(wrun, ready) EXCEPT !.pc = "dag_wait"]
             /\ wspawn' = wspawn \o NamesOf(ready)
             /\ UNCHANGED wck
     ELSE /\ wck' = [wck EXCEPT !.status = DagStatus(wck, wrun.steps)]
          /\ wrun' = ToSave(wrun, "return")
          /\ UNCHANGED wspawn
  /\ UNCHANGED <<now, qvars, steps, calls, kvars, bvars, xvars, wfile, wruns, wres>>

\* executeDag: the round's executions have settled and are recorded
DagRecord ==
  /\ wrun.pc = "dag_wait"
  /\ AllSettled(wrun)
  /\ wck' = RecordAll(wck, wrun.flight, wrun.outcome, wruns)
  /\ wrun' = [ToSave(wrun, "dag") EXCEPT !.iter = wrun.iter + 1]
  /\ UNCHANGED <<now, qvars, steps, calls, kvars, bvars, xvars, wfile, wruns, wspawn,
                 wres>>

\* execute, after the executor: the checkpoint is unlinked when the status
\* is done, and the result is returned
WorkflowReturn ==
  /\ wrun.pc = "return"
  /\ wfile' = AfterCleanup(wfile, wck)
  /\ wres' = WResult(wck.status, wck, wrun)
  /\ wrun' = NoRun
  /\ UNCHANGED <<now, qvars, steps, calls, kvars, bvars, xvars, wck, wruns, wspawn>>

\* the steps of the engine within a call
Engine ==
  \/ SaveCheckpoint
  \/ SaveThrows
  \/ \E n \in {"A", "B", "C", "constructor"},
        o \in {"fulfilled", "rejected"} : StepSettles(n, o)
  \/ SequentialNext
  \/ SequentialRecord
  \/ ParallelLaunch
  \/ ParallelRecord
  \/ DagRound
  \/ DagRecord
  \/ WorkflowReturn

NextWorkflow ==
  \/ \E p \in Patterns, w \in {Chain, Fan}, r \in BOOLEAN :
       WorkflowStart(p, w, r)
  \/ Engine

SpecWorkflow == Init /\ [][NextWorkflow]_vars

\* every step execution settles, and the engine goes on after each await
SpecWorkflowFair == SpecWorkflow /\ WF_vars(Engine)

\* the calls whose workflow has a step with a name Object.prototype has
NextWorkflowNames ==
  \/ \E p \in Patterns, r \in BOOLEAN : WorkflowStart(p, ProtoChain, r)
  \/ Engine

SpecWorkflowNames == Init /\ [][NextWorkflowNames]_vars

(***************************************************************************)
(* SpecPoll: executeStep, one call at a time.  After the session patch and *)
(* the agent call the function polls sessions.history: the loop tests      *)
(* Date.now() < deadline, sleeps pollIntervalMs, calls the gateway, and    *)
(* leaves the loop when the last assistant message has content.  A timer   *)
(* may fire late and a gateway call takes time.                            *)
(***************************************************************************)
\* executeStep: pollIntervalMs
PollIntervalMs == 3000

\* executeStep: step.timeoutSeconds ?? 600
DefaultTimeoutSeconds == 600

\* executeStep: maxPollMs; NoTime is "not given"
MaxPollMs(timeoutSeconds) ==
  (IF timeoutSeconds = NoTime THEN DefaultTimeoutSeconds
   ELSE timeoutSeconds) * 1000

\* the loop condition that lets the deadline itself pass
PollContinuesAtDeadline(ts, deadline) == ts <= deadline

\* executeStep: while (Date.now() < deadline)
PollContinues(ts, deadline) == ts < deadline

\* the timeoutSeconds of the steps, the lateness of a timer and the time a
\* gateway call takes, in ms
PollTimeouts == {0, 4, 6}
TimerLateness == {0, 1000}
GatewayLatency == {0, 1000}

\* executeStep up to the loop: the session patch and the agent call have
\* succeeded; deadline = Date.now() + maxPollMs
ExecStart(timeoutSeconds) ==
  /\ poll.pc = "idle"
  /\ poll.runs < MaxPollRuns
  /\ poll' = [pc |-> "check", runs |-> poll.runs + 1,
              deadline |-> now + MaxPollMs(timeoutSeconds),
              checkedAt |-> now, polledAt |-> now, outcome |-> "none"]
  /\ UNCHANGED <<now, qvars, steps, calls, kvars, bvars, wvars, ctools, tmpl>>

\* executeStep: the sessions.patch of the depth or the agent call throws;
\* the step execution is rejected with that error
ExecSpawnFails ==
  /\ poll.pc = "idle"
  /\ poll.runs < MaxPollRuns
  /\ poll' = [NoPoll EXCEPT !.runs = poll.runs + 1, !.outcome = "spawn_error"]
  /\ UNCHANGED <<now, qvars, steps, calls, kvars, bvars, wvars, ctools, tmpl>>

\* the loop condition: on with the sleep, or out of the loop without a
\* result, which throws the timed-out error
PollCheck ==
  /\ poll.pc = "check"
  /\ IF PollContinues(now, poll.deadline)
     THEN poll' = [poll EXCEPT !.pc = "sleep", !.checkedAt = now]
     ELSE poll' = [poll EXCEPT !.pc = "idle", !.outcome = "timeout"]
  /\ UNCHANGED <<now, qvars, steps, calls, kvars, bvars, wvars, ctools, tmpl>>

\* setTimeout(resolve, pollIntervalMs) fires, and sessions.history is called
PollSleep(late) ==
  /\ poll.pc = "sleep"
  /\ now' = now + PollIntervalMs + late
  /\ poll' = [poll EXCEPT !.pc = "call", !.polledAt = now']
  /\ UNCHANGED <<qvars, steps, calls, kvars, bvars, wvars, ctools, tmpl>>

\* the sessions.history call settles: it throws, it shows no assistant
\* message with content, or it shows one, which ends the loop
PollReply(reply, latency) ==
  /\ poll.pc = "call"
  /\ now' = now + latency
  /\ IF reply = "result"
     THEN poll' = [poll EXCEPT !.pc = "idle", !.outcome = "result"]
     ELSE poll' = [poll EXCEPT !.pc = "check"]
  /\ UNCHANGED <<qvars, steps, calls, kvars, bvars, wvars, ctools, tmpl>>

\* the steps of executeStep after its start
PollEngine ==
  \/ PollCheck
  \/ \E late \in TimerLateness : PollSleep(late)
  \/ \E r \in {"throws", "none", "result"}, l \in GatewayLatency :
       PollReply(r, l)

NextPoll ==
  \/ \E t \in PollTimeouts : ExecStart(t)
  \/ ExecSpawnFails
  \/ PollEngine

SpecPoll == Init /\ [][NextPoll]_vars

\* timers fire and gateway calls settle (each has a timeout)
SpecPollFair == SpecPoll /\ WF_vars(PollEngine)

(***************************************************************************)
(* SpecWorkflowThrows: workflow_run where any checkpoint write may throw:  *)
(* the first one, which execute awaits before the try block, and the one   *)
(* in the catch block, whose rejection nothing handles.                    *)
(***************************************************************************)
\* execute: the first saveCheckpoint throws; the rejection leaves execute
FirstSaveThrows ==
  /\ wrun.pc = "save"
  /\ ~wrun.guarded
  /\ wres' = [status |-> "threw"]
  /\ wrun' = NoRun
  /\ UNCHANGED <<now, qvars, steps, calls, kvars, bvars, xvars, wfile, wck, wruns,
                 wspawn>>

\* a saveCheckpoint inside the try block throws, and so does the one of the
\* catch block: the checkpoint object is marked, the file is not written,
\* and the rejection leaves execute
CatchSaveThrows ==
  /\ wrun.pc = "save"
  /\ wrun.guarded
  /\ wck' = [wck EXCEPT !.status = "failed",
                        !.failed = SetProp(@, "_workflow", "error")]
  /\ wres' = [status |-> "threw"]
  /\ wrun' = NoRun
  /\ UNCHANGED <<now, qvars, steps, calls, kvars, bvars, xvars, wfile, wruns,
                 wspawn>>

NextWorkflowThrows ==
  \/ \E p \in Patterns, r \in BOOLEAN : WorkflowStart(p, Chain, r)
  \/ Engine
  \/ FirstSaveThrows
  \/ CatchSaveThrows

SpecWorkflowThrows == Init /\ [][NextWorkflowThrows]_vars

\* the requests that validation and admission tell apart
AdmissionWorkflows == {Flat, NoSteps, Duplicate, UnknownDep}
CallerDepths == {0, 1}
SpawnDepthLimits == {DefaultMaxSpawnDepth}
ChildrenLimits == {2, DefaultMaxChildren}

NextAdmission ==
  \/ \E p \in Patterns, w \in AdmissionWorkflows, d \in CallerDepths,
        m \in SpawnDepthLimits, c \in ChildrenLimits :
       WorkflowCall(p, w, FALSE, d, m, c)
  \/ Engine

SpecAdmission == Init /\ [][NextAdmission]_vars

(***************************************************************************)
(* Claims about the task queue.                                            *)
(***************************************************************************)
\* the step is the tool call op (a clock tick leaves qres alone)
IsCall(op) == steps' = steps + 1 /\ now' = now /\ qres'.op = op

Max(a, b) == IF a >= b THEN a ELSE b

\* C1: after any sequence of add, claim, complete, fail and retry, every
\* stored task has one of the statuses pending, claimed, done, failed.
C1_StatusClosed ==
  \A i \in 1..Len(tasks) : tasks[i].status \in TaskStatus

\* C1 witness: the operations have produced a failed task and a done task
\* next to each other.
C1_Witness ==
  \E i, j \in 1..Len(tasks) :
    tasks[i].status = "failed" /\ tasks[j].status = "done"

\* task i of q comes strictly before task j in claim's order
Before(q, i, j) ==
  \/ priorityOrder(q[i].priority) < priorityOrder(q[j].priority)
  \/ /\ priorityOrder(q[i].priority) = priorityOrder(q[j].priority)
     /\ q[i].createdAt < q[j].createdAt

\* C2: whenever a task is pending, claim moves to claimed exactly one
\* pending task, no pending task of a higher priority, or of the same
\* priority and an earlier createdAt, is left behind, and the result names
\* the claimed task.
C2_ClaimOrder ==
  [][ (IsCall("claim") /\ \E j \in 1..Len(tasks) : tasks[j].status = "pending")
      => /\ qres'.status = "claimed"
         /\ Len(tasks') = Len(tasks)
         /\ \E i \in 1..Len(tasks) :
              /\ tasks[i].status = "pending"
              /\ tasks'[i].status = "claimed"
              /\ tasks[i].id = qres'.id
              /\ \A j \in 1..Len(tasks) :
                   /\ j # i => tasks'[j] = tasks[j]
                   /\ tasks[j].status = "pending" => ~Before(tasks, j, i) ]_vars

\* C2 witness: claim has just taken a task over an older pending task of
\* lower priority.
C2_Witness ==
  /\ qres.op = "claim" /\ qres.status = "claimed"
  /\ \E i, j \in 1..Len(tasks) :
       /\ tasks[i].id = qres.id /\ tasks[i].status = "claimed"
       /\ tasks[j].status = "pending"
       /\ tasks[j].createdAt < tasks[i].createdAt
       /\ priorityOrder(tasks[i].priority) < priorityOrder(tasks[j].priority)

\* C3: fail on a claimed task with retry count r sets retries to r+1; if
\* r+1 < maxRetries the task is pending again with claimedAt cleared and
\* the result is 'retrying'; otherwise the task is failed with the error
\* recorded and the result is 'failed'.
C3_FailClaimed ==
  [][ \A i \in 1..Len(tasks) :
        (IsCall("fail") /\ FindTask(tasks, qres'.id) = i
           /\ tasks[i].status = "claimed")
        => /\ tasks'[i].retries = tasks[i].retries + 1
           /\ qres'.retries = tasks[i].retries + 1
           /\ IF tasks[i].retries + 1 < tasks[i].maxRetries
              THEN /\ tasks'[i].status = "pending"
                   /\ tasks'[i].claimedAt = NoTime
                   /\ qres'.status = "retrying"
              ELSE /\ tasks'[i].status = "failed"
                   /\ tasks'[i].error = "err"
                   /\ qres'.status = "failed"
                   /\ qres'.error = "err" ]_vars

\* C3 witness: a claimed task has been failed and sent back to pending,
\* and another claimed task has been failed for good.
C3_Witness ==
  /\ qres.op = "fail" /\ qres.status = "retrying"
  /\ \E i, j \in 1..Len(tasks) :
       /\ tasks[i].id = qres.id /\ ~hist[tasks[i].id].offPath
       /\ tasks[i].status = "pending" /\ tasks[i].claimedAt = NoTime
       /\ tasks[j].status = "failed" /\ ~hist[tasks[j].id].offPath

\* C4 as stated: a task with maxRetries = N that is only ever claimed and
\* failed has been sent back to pending N times when it becomes failed,
\* which happens on its (N+1)th failure.
C4_Original ==
  \A i \in 1..Len(tasks) :
    (~hist[tasks[i].id].offPath /\ tasks[i].status = "failed")
    => /\ hist[tasks[i].id].autoRetries = tasks[i].maxRetries
       /\ tasks[i].retries = tasks[i].maxRetries + 1

\* C4 as amended: a task with maxRetries = N that is only ever claimed and
\* failed becomes failed on failure number max(N, 1), having been sent back
\* to pending max(N, 1) - 1 times; until then every failure sent it back.
C4_Amended ==
  \A i \in 1..Len(tasks) :
    ~hist[tasks[i].id].offPath
    => LET last == Max(tasks[i].maxRetries, 1)
       IN IF tasks[i].status = "failed"
          THEN /\ tasks[i].retries = last
               /\ hist[tasks[i].id].autoRetries = last - 1
          ELSE /\ tasks[i].status \in {"pending", "claimed"}
               /\ tasks[i].retries < last
               /\ hist[tasks[i].id].autoRetries = tasks[i].retries

\* C4 witness: a task with maxRetries = 2 has failed for good on its second
\* failure, after one automatic retry.
C4_Witness ==
  \E i \in 1..Len(tasks) :
    /\ ~hist[tasks[i].id].offPath /\ tasks[i].status = "failed"
    /\ tasks[i].maxRetries = 2 /\ tasks[i].retries = 2
    /\ hist[tasks[i].id].autoRetries = 1

\* C5: every change of a task's status is a transition of the table: claim
\* changes a pending task, complete and fail a claimed one, retry a failed
\* one.
C5_TableTransitions ==
  [][ \A i \in 1..Len(tasks) :
        (Len(tasks') >= i /\ tasks'[i].status # tasks[i].status)
        => \/ /\ IsCall("claim") /\ tasks[i].status = "pending"
              /\ tasks'[i].status = "claimed"
           \/ /\ IsCall("complete") /\ tasks[i].status = "claimed"
              /\ tasks'[i].status = "done"
           \/ /\ IsCall("fail") /\ tasks[i].status = "claimed"
              /\ tasks'[i].status \in {"pending", "failed"}
           \/ /\ IsCall("retry") /\ tasks[i].status = "failed"
              /\ tasks'[i].status = "pending" ]_vars

\* C6: every task that is not failed has retries <= maxRetries, also after
\* a manual retry.
C6_RetriesBounded ==
  \A i \in 1..Len(tasks) :
    tasks[i].status # "failed" => tasks[i].retries <= tasks[i].maxRetries

(***************************************************************************)
(* Claims about calls that interleave.                                     *)
(***************************************************************************)
\* C7: mutations of one document are serialized, so that once all calls
\* have returned, every task whose add was acknowledged is in the document.
C7_NoLostUpdate ==
  (\A c \in 1..MaxCalls : calls[c].pc \in {"idle", "done"})
  => \A c \in 1..MaxCalls :
       (calls[c].op = "add" /\ calls[c].status = "added")
       => \E i \in 1..Len(tasks) : tasks[i].id = calls[c].id

(***************************************************************************)
(* Claims about the knowledge store.                                       *)
(***************************************************************************)
\* the step is the knowledge_store call op
IsStoreCall(op) == steps' = steps + 1 /\ now' = now /\ kres'.op = op

\* C8: after a set of (category, key) has succeeded, a get of the same
\* (category, key), with no set or delete of that key in between, returns
\* status ok and the data that was set.
C8_SetThenGet ==
  (kres.op = "get" /\ lastSet[kres.category, kres.key] # Undefined)
  => /\ kres.status = "ok"
     /\ kres.data = lastSet[kres.category, kres.key]

\* C9: a set of a key the category holds returns 'updated', keeps the
\* entry's createdAt and does not make updatedAt smaller; a set of a key
\* the category does not hold returns 'created'.
C9_CreatedUpdated ==
  [][ \A c \in Categories, k \in Keys :
        (IsStoreCall("set") /\ kres'.status # "error"
           /\ kres'.category = c /\ kres'.key = k)
        => IF c \in DOMAIN store /\ k \in DOMAIN store[c]
           THEN /\ kres'.status = "updated"
                /\ store'[c][k].createdAt = store[c][k].createdAt
                /\ store'[c][k].updatedAt >= store[c][k].updatedAt
           ELSE kres'.status = "created" ]_vars

\* C8 for the keys Object.prototype does not have.
C8_OrdinaryKeys ==
  (kres.op = "get" /\ kres.key \notin InheritedKeys
     /\ lastSet[kres.category, kres.key] # Undefined)
  => /\ kres.status = "ok"
     /\ kres.data = lastSet[kres.category, kres.key]

\* C9 for the keys Object.prototype does not have.
C9_OrdinaryKeys ==
  [][ \A c \in Categories, k \in Keys \ InheritedKeys :
        (IsStoreCall("set") /\ kres'.status # "error"
           /\ kres'.category = c /\ kres'.key = k)
        => IF c \in DOMAIN store /\ k \in DOMAIN store[c]
           THEN /\ kres'.status = "updated"
                /\ store'[c][k].createdAt = store[c][k].createdAt
                /\ store'[c][k].updatedAt >= store[c][k].updatedAt
           ELSE kres'.status = "created" ]_vars

(***************************************************************************)
(* Claims about the message board.                                         *)
(***************************************************************************)
\* C10: a read without since returns the messages in ascending timestamp
\* order, also when the posts interleave.
C10_ReadAscending ==
  (bres.op = "read" /\ bres.since = NoSince)
  => \A i, j \in 1..Len(bres.messages) :
       i < j => bres.messages[i].timestamp <= bres.messages[j].timestamp

\* C10, second part: such a read returns the messages in the order in which
\* the posts were made.
C10_PostingOrder ==
  (bres.op = "read" /\ bres.since = NoSince)
  => \A i, j \in 1..Len(bres.messages) :
       i < j => bres.messages[i].seq < bres.messages[j].seq

\* the number of elements of the set of indices idx that are <= i
Rank(idx, i) == Cardinality({x \in idx : x <= i})

\* C11: a read with since = T, T a valid ISO timestamp, returns only
\* messages with timestamp > T: all of them, in file order, when there are
\* at most limit of them, otherwise the last limit of them; and it returns
\* no message whose post was made before the caller recorded T.
C11_ReadSince ==
  [][ (bres' # bres /\ bres'.since.kind = "iso")
      => LET all == ReadBoard(boards, bres'.board)
             newer == {i \in 1..Len(all) : all[i].timestamp > bres'.since.ms}
             n == Cardinality(newer)
             k == IF n <= bres'.limit THEN n ELSE bres'.limit
             got == bres'.messages
         IN /\ Len(got) = k
            /\ \A j \in 1..k :
                 \E i \in newer : Rank(newer, i) = n - k + j /\ got[j] = all[i]
            /\ bres'.since.ms = cursor.ms
               => \A j \in 1..k : got[j].seq > cursor.seen ]_vars

\* C11 witness: a read with the recorded T has returned a message posted
\* after T was recorded and has left out one posted before, which is in the
\* file.
C11_Witness ==
  /\ bres.op = "read" /\ bres.since.kind = "iso"
  /\ bres.since.ms = cursor.ms /\ bres.limit = DefaultLimit
  /\ Len(bres.messages) >= 1
  /\ \E i \in 1..Len(ReadBoard(boards, bres.board)) :
       /\ ReadBoard(boards, bres.board)[i].seq <= cursor.seen
       /\ \A j \in 1..Len(bres.messages) :
            bres.messages[j] # ReadBoard(boards, bres.board)[i]

(***************************************************************************)
(* Claims about the workflow engine.                                       *)
(***************************************************************************)
\* C12: for a finite acyclic DAG workflow in which every step execution
\* settles, executeDag makes at most |steps| scheduling rounds and the call
\* returns.
C12_DagTerminates ==
  /\ [](wrun.pattern = "dag" => wrun.iter <= Len(wrun.steps))
  /\ [](wrun.pattern = "dag" => <>(wrun.pc = "idle"))

\* C12 witness: a DAG call has returned after as many rounds as the
\* workflow has steps, every step completed.
C12_Witness ==
  /\ wres.status = "done" /\ wres.pattern = "dag"
  /\ wres.rounds = wres.totalSteps /\ wres.stepsCompleted = wres.totalSteps

\* every name of the completed map a is in the completed map b, with the
\* same result
KeepsCompleted(a, b) ==
  \A n \in DOMAIN a.completed :
    n \in DOMAIN b.completed /\ b.completed[n] = a.completed[n]

\* C13: once a step name is in completed, no step outcome, checkpoint save,
\* engine error or resume that adopts the checkpoint removes it or replaces
\* its result: within a call neither the checkpoint object nor, from the
\* first save of the call on or in a call that adopted it, the file loses
\* or changes an entry, and an adopting call starts with every entry of
\* the file.
C13_CompletedMonotone ==
  [][ IF wruns' = wruns
      THEN /\ wrun.pc # "idle" => KeepsCompleted(wck, wck')
           /\ (wfile # NoCheckpoint /\ wfile' # NoCheckpoint
                 /\ (wrun.resumed \/ wrun.guarded))
              => KeepsCompleted(wfile, wfile')
      ELSE wrun'.resumed => KeepsCompleted(wfile, wck') ]_vars

\* C13 witness: a call that adopted a checkpoint holds a result of the
\* earlier call next to a result of its own, after an engine error.
C13_Witness ==
  /\ wres.status = "error" /\ wres.resumed
  /\ \E n, m \in DOMAIN wres.checkpoint.completed :
       wres.checkpoint.completed[n] = 1 /\ wres.checkpoint.completed[m] = 2

\* the step starts a call with resume = true and the step names of the
\* call that returned last
IsRerun ==
  /\ wruns' = wruns + 1 /\ wrun'.resume
  /\ wres.status # "none"
  /\ wres.checkpoint.steps = StepNames(wrun'.steps)

\* no step the engine spawns in this step is in completed
SpawnsNoCompleted ==
  \A i \in (Len(wspawn) + 1)..Len(wspawn') :
    wspawn'[i] \notin DOMAIN wck.completed

Disjoint(ck) == DOMAIN ck.completed \cap DOMAIN ck.failed = {}

\* C15: in every checkpoint state the engine reaches, in memory and on
\* disk, also after resuming a failed workflow, no step name is in both
\* the completed map and the failed map.
C15_CompletedFailedDisjoint ==
  /\ wck # NoCheckpoint => Disjoint(wck)
  /\ wfile # NoCheckpoint => Disjoint(wfile)

\* C15 for the calls that adopt no checkpoint.
C15_FreshCalls ==
  (wck # NoCheckpoint /\ ~wrun.resumed /\ wrun.pc # "idle") => Disjoint(wck)

\* every step name of the checkpoint is a key of its completed map
AllCompleted(ck) ==
  \A i \in 1..Len(ck.steps) : ck.steps[i] \in DOMAIN ck.completed

\* C16: whenever a checkpoint has status done, in memory or on disk, every
\* step name of the workflow is in its completed map.
C16_DoneAllCompleted ==
  /\ (wck # NoCheckpoint /\ wck.status = "done") => AllCompleted(wck)
  /\ (wfile # NoCheckpoint /\ wfile.status = "done") => AllCompleted(wfile)

\* the step of the engine spawns the step at position j of the workflow
Spawns(j) ==
  /\ wruns' = wruns /\ Len(wspawn') > Len(wspawn)
  /\ \E i \in (Len(wspawn) + 1)..Len(wspawn') : wspawn'[i] = wrun.steps[j].name

\* C17: in a sequential workflow a step is spawned only when every step
\* before it has settled and the file on disk records its outcome, and
\* when every step spawned before it in this call was fulfilled; when a
\* step fails the status becomes failed, and the call spawns nothing more.
C17_SequentialOrder ==
  [][ wrun.pattern = "sequential"
      => /\ \A j \in 1..Len(wrun.steps) :
              Spawns(j)
              => /\ wfile # NoCheckpoint
                 /\ \A i \in 1..(j - 1) :
                      wrun.steps[i].name \in DOMAIN wfile.completed
                 /\ \A i \in 1..Len(wspawn) :
                      /\ wspawn[i] \in DOMAIN wfile.completed
                      /\ wfile.completed[wspawn[i]] = wruns
                 /\ wck.status = "in_progress"
         /\ \A n \in DOMAIN wrun.outcome :
              (wrun.outcome[n] = "rejected" /\ wrun'.pc = "save")
              => wck'.status = "failed" /\ wrun'.after = "return" ]_vars

\* C18: in a parallel workflow every step that is not in completed is
\* launched, whatever happens to the other steps; the outcome of every
\* launched step is recorded, and when the call returns every launched
\* step is in completed or in failed.
C18_ParallelIndependent ==
  [][ (wrun.pattern = "parallel" /\ wruns' = wruns)
      => /\ wrun.pc = "parallel"
            => \A i \in 1..Len(wrun.steps) :
                 wrun.steps[i].name \notin DOMAIN wck.completed
                 => /\ wrun.steps[i].name \in DOMAIN wrun'.outcome
                    /\ wrun.steps[i].name \in Range(wspawn')
         /\ (wrun.pc = "parallel_wait" /\ wrun'.pc = "save")
            => \A n \in DOMAIN wrun.outcome :
                 IF wrun.outcome[n] = "fulfilled"
                 THEN n \in DOMAIN wck'.completed /\ wck'.completed[n] = wruns
                 ELSE n \in DOMAIN wck'.failed
         /\ wrun'.pc = "idle"
            => \A n \in Range(wspawn) :
                 n \in DOMAIN wres'.checkpoint.completed
                          \cup DOMAIN wres'.checkpoint.failed ]_vars

\* the names in S and the names of the steps that depend on a name in S,
\* k times over
RECURSIVE DependentsUpTo(_, _, _)
DependentsUpTo(stepList, S, k) ==
  IF k = 0 THEN S
  ELSE DependentsUpTo(stepList,
         S \cup {s.name : s \in {t \in Range(stepList) : t.dependsOn \cap S # {}}},
         k - 1)

\* the steps that depend on the step f, directly or transitively
Dependents(stepList, f) == DependentsUpTo(stepList, {f}, Len(stepList)) \ {f}

\* C19: when a DAG call in which a step failed returns, no step that
\* depends on the failed step, directly or transitively, has been spawned
\* in the call or is in completed or failed, the status is failed, and the
\* checkpoint file is there.
C19_DagFailure ==
  [][ (wrun.pattern = "dag" /\ wruns' = wruns /\ wrun'.pc = "idle")
      => \A f \in Range(wspawn) \cap DOMAIN wres'.checkpoint.failed :
           /\ \A d \in Dependents(wrun.steps, f) :
                /\ d \notin Range(wspawn)
                /\ d \notin DOMAIN wres'.checkpoint.completed
                /\ d \notin DOMAIN wres'.checkpoint.failed
           /\ wres'.checkpoint.status = "failed"
           /\ wfile' = wres'.checkpoint ]_vars

ValidRequest(p, w) ==
  /\ Len(w) > 0
  /\ \A i, j \in DOMAIN w : w[i].name = w[j].name => i = j
  /\ p = "dag" => \A i \in DOMAIN w :
                    w[i].dependsOn \subseteq {w[j].name : j \in DOMAIN w}

\* the step is a call answered with a rejection: no execution was started,
\* nothing was spawned and the checkpoint file is as it was
RejectedNoEffect ==
  /\ wrun' = NoRun
  /\ wspawn' = <<>>
  /\ wfile' = wfile

\* C21 as stated: every request with callerDepth >= maxSpawnDepth, and
\* every parallel request with more steps than maxChildrenPerAgent, is
\* answered with status forbidden; a rejected request has no effect.
C21_Original ==
  [][ \A p \in Patterns, w \in AdmissionWorkflows, d \in CallerDepths,
         m \in SpawnDepthLimits, c \in ChildrenLimits :
        WorkflowCall(p, w, FALSE, d, m, c)
        => /\ d >= m => wres'.status = "forbidden" /\ RejectedNoEffect
           /\ (p = "parallel" /\ Len(w) > c)
              => wres'.status = "forbidden" /\ RejectedNoEffect
           /\ ~ValidRequest(p, w) => RejectedNoEffect ]_vars

\* C21: a request that passes validation is answered with status forbidden
\* when callerDepth >= maxSpawnDepth, or when the pattern is parallel and
\* it has more steps than maxChildrenPerAgent; a request that fails
\* validation is answered with status error whatever the depth; a request
\* rejected either way starts no execution, spawns nothing and leaves the
\* checkpoint file as it was.
C21_Amended ==
  [][ \A p \in Patterns, w \in AdmissionWorkflows, d \in CallerDepths,
         m \in SpawnDepthLimits, c \in ChildrenLimits :
        WorkflowCall(p, w, FALSE, d, m, c)
        => /\ (ValidRequest(p, w) /\ d >= m)
              => wres'.status = "forbidden" /\ RejectedNoEffect
           /\ (ValidRequest(p, w) /\ p = "parallel" /\ Len(w) > c)
              => wres'.status = "forbidden" /\ RejectedNoEffect
           /\ ~ValidRequest(p, w)
              => wres'.status = "error" /\ RejectedNoEffect ]_vars

\* C21 witness: after a call that ran and left a checkpoint file, a
\* parallel request with too many steps has been answered with forbidden.
C21_Witness ==
  /\ wres.status = "forbidden" /\ wres.error = "children"
  /\ wrun = NoRun /\ wspawn = <<>> /\ wfile # NoCheckpoint

(***************************************************************************)
(* workflow_run: the checkpoint on disk while steps are in flight.         *)
(***************************************************************************)
\* the checkpoint file records the settled outcome of the step n
OnDisk(n) ==
  /\ wfile # NoCheckpoint
  /\ IF wrun.outcome[n] = "fulfilled"
     THEN n \in DOMAIN wfile.completed
     ELSE n \in DOMAIN wfile.failed

\* C22: while the engine waits on a step that is still running, the
\* checkpoint file records the outcome of every step of the call whose
\* execution has settled.
C22_SettledOnDisk ==
  (/\ wrun.pc \in {"sequential_wait", "parallel_wait", "dag_wait"}
   /\ \E r \in DOMAIN wrun.outcome : wrun.outcome[r] = "running")
  => \A n \in DOMAIN wrun.outcome :
       wrun.outcome[n] # "running" => OnDisk(n)

\* C22 in the sequential pattern, where one step is in flight at a time:
\* when the next step is spawned, every step spawned before it in the call
\* is in the checkpoint file.
C22_Sequential ==
  (wrun.pc = "sequential_wait")
  => \A i \in 1..(Len(wspawn) - 1) :
       /\ wfile # NoCheckpoint
       /\ wspawn[i] \in DOMAIN wfile.completed

C25_NoEmptyCategory ==
  \A c \in DOMAIN store : DOMAIN store[c] # {}

\* C25 for the calls with ordinary keys: a category with zero keys appears
\* in the document only by a set with the key "__proto__" in a category
\* that was not there.
C25_OrdinaryKeys ==
  [][ \A c \in DOMAIN store' :
        DOMAIN store'[c] = {}
        => \/ c \in DOMAIN store /\ DOMAIN store[c] = {}
           \/ /\ kres'.op = "set" /\ kres'.key = "__proto__"
              /\ kres'.category = c /\ c \notin DOMAIN store ]_vars

(***************************************************************************)
(* workflow_run: resuming a failed workflow.                               *)
(***************************************************************************)
\* the step is the return of a call that adopted a checkpoint, without an
\* engine error, in which every step executed was fulfilled
ResumedAllSucceed ==
  /\ wrun.resumed /\ wruns' = wruns /\ wrun'.pc = "idle"
  /\ wres'.status # "error"
  /\ \A n \in Range(wspawn) : n \in DOMAIN wres'.checkpoint.completed

\* the call ends with status done, every step completed
EndsDone ==
  /\ wres'.status = "done"
  /\ \A i \in DOMAIN wrun.steps :
       wrun.steps[i].name \in DOMAIN wres'.checkpoint.completed

\* C26: when a call with resume = true that adopted the checkpoint of a
\* failed call returns and every step it executed succeeded, every step
\* that had failed or had not been started has been executed and the
\* status is done.
C26_ResumeContinues ==
  [][ ResumedAllSucceed => EndsDone ]_vars

\* C26 in the sequential pattern, where it holds.
C26_Sequential ==
  [][ (ResumedAllSucceed /\ wrun.pattern = "sequential") => EndsDone ]_vars

(***************************************************************************)
(* workflow_run: the number of step executions in flight.                  *)
(***************************************************************************)
\* the step executions of the call that have not settled
Running == {n \in DOMAIN wrun.outcome : wrun.outcome[n] = "running"}

\* C27: at no point of an admitted call are more than maxChildrenPerAgent
\* step executions in flight.
C27_MaxChildren ==
  wrun.pc # "idle" => Cardinality(Running) <= wrun.maxChildren

\* C27 in the sequential and parallel patterns, where it holds.
C27_SequentialParallel ==
  (wrun.pc # "idle" /\ wrun.pattern \in {"sequential", "parallel"})
  => Cardinality(Running) <= wrun.maxChildren

(***************************************************************************)
(* workflow_run: what a DAG round spawns.                                  *)
(***************************************************************************)
\* C28: in a DAG workflow a step is spawned only when it is in neither
\* completed nor failed and every step it depends on is in completed, and
\* no step is spawned twice in one call.
C28_DagSpawn ==
  [][ wrun.pattern = "dag"
      => \A j \in 1..Len(wrun.steps) :
           Spawns(j)
           => /\ wrun.steps[j].name \notin DOMAIN wck.completed
              /\ wrun.steps[j].name \notin DOMAIN wck.failed
              /\ wrun.steps[j].dependsOn \subseteq DOMAIN wck.completed
              /\ wrun.steps[j].name \notin Range(wspawn)
              /\ Cardinality({i \in 1..Len(wspawn') :
                                wspawn'[i] = wrun.steps[j].name}) = 1 ]_vars

(***************************************************************************)
(* workflow_run: the final status of a parallel call.                      *)
(***************************************************************************)
\* the step is the return of a parallel call without an engine error
ParallelReturns ==
  /\ wrun.pattern = "parallel" /\ wruns' = wruns /\ wrun'.pc = "idle"
  /\ wres'.status # "error"

\* the final status is failed when a step executed in the call failed,
\* and done otherwise
StatusByThisRun ==
  wres'.status =
    IF \E n \in Range(wspawn) : n \notin DOMAIN wres'.checkpoint.completed
    THEN "failed" ELSE "done"

\* C29: the final status of a parallel call is failed if and only if some
\* step executed in that call failed, and done otherwise, a resumed call
\* included.
C29_ParallelStatus ==
  [][ ParallelReturns => StatusByThisRun ]_vars

\* C29 for the parallel calls that adopt no checkpoint, where it holds.
C29_FreshCalls ==
  [][ (ParallelReturns /\ ~wrun.resumed) => StatusByThisRun ]_vars

(***************************************************************************)
(* task_queue: concurrent claims.                                          *)
(***************************************************************************)
\* C30: no two claim calls whose executions overlap both return status
\* claimed for the same task id.  No call of SpecConc puts a claimed task
\* back to pending, so two claim results with one id are of overlapping
\* calls.
C30_ClaimExclusive ==
  \A c \in 1..MaxCalls, d \in 1..MaxCalls :
    (/\ c # d
     /\ calls[c].pc = "done" /\ calls[c].op = "claim"
     /\ calls[c].status = "claimed"
     /\ calls[d].pc = "done" /\ calls[d].op = "claim"
     /\ calls[d].status = "claimed")
    => calls[c].id # calls[d].id

(***************************************************************************)
(* task_queue: the calls that find nothing to act on.                      *)
(***************************************************************************)
\* the step is a tool call, not a clock tick
IsQueueCall == steps' = steps + 1 /\ now' = now

\* C31: a claim when no task is pending returns status empty, and a
\* complete, fail or retry with an id that no task has returns status
\* not_found; a call that returns empty or not_found leaves the queue, the
\* fields of every task and the order of the tasks, as it was.
C31_NothingToDo ==
  [][ IsQueueCall
      => /\ (qres'.op = "claim"
             /\ \A i \in DOMAIN tasks : tasks[i].status # "pending")
            => qres'.status = "empty"
         /\ (qres'.op \in {"complete", "fail", "retry"}
             /\ \A i \in DOMAIN tasks : tasks[i].id # qres'.id)
            => qres'.status = "not_found"
         /\ qres'.status \in {"empty", "not_found"} => tasks' = tasks ]_vars

\* C31 witness: a fail with an id that no task has returned not_found on
\* a queue that holds a claimed task.
C31_Witness ==
  /\ qres.op = "fail" /\ qres.status = "not_found"
  /\ \A i \in DOMAIN tasks : tasks[i].id # qres.id
  /\ \E i \in DOMAIN tasks : tasks[i].status = "claimed"

(***************************************************************************)
(* workflow_run: a DAG call in which every execution succeeds.             *)
(***************************************************************************)
\* the step is the return of a DAG call, without an engine error, in which
\* every step executed was fulfilled
DagAllSucceed ==
  /\ wrun.pattern = "dag" /\ wruns' = wruns /\ wrun'.pc = "idle"
  /\ wres'.status # "error"
  /\ \A n \in Range(wspawn) : n \in DOMAIN wres'.checkpoint.completed

\* every step is in completed, failed is empty, the status is done, and
\* every step was spawned exactly once
DoneEachOnce ==
  /\ EndsDone
  /\ DOMAIN wres'.checkpoint.failed = {}
  /\ \A i \in DOMAIN wrun.steps :
       Cardinality({k \in DOMAIN wspawn :
                      wspawn[k] = wrun.steps[i].name}) = 1

\* C32: when a call of an acyclic DAG workflow returns and every step
\* execution succeeded, every step is in completed, failed is empty, the
\* status is done and each step was spawned exactly once.
C32_DagAllSucceed ==
  [][ DagAllSucceed => DoneEachOnce ]_vars

\* C32 for the calls that adopt no checkpoint, which holds for step names
\* that Object.prototype does not have.
C32_FreshCalls ==
  [][ (DagAllSucceed /\ ~wrun.resumed) => DoneEachOnce ]_vars

(***************************************************************************)
(* agent_board: append-only logs, clear, and isolation of the boards.      *)
(***************************************************************************)
\* the log a is the beginning of the log b
IsPrefix(a, b) == Len(a) <= Len(b) /\ SubSeq(b, 1, Len(a)) = a

\* the log of a file, empty when there is no file
LogOf(files, f) == IF f \in DOMAIN files THEN files[f] ELSE <<>>

\* the file names of the boards of the calls
BoardFiles == {"a_b", "c"}

\* C33: a post adds exactly its one message at the end of the log of its
\* board and leaves every other log as it was; a read and the start of a
\* post change no log; a log loses a message only by a clear of its board;
\* after a clear a read of the board returns no message, and a clear of a
\* board without a file answers ok and changes nothing.
C33_AppendOnly ==
  [][ /\ \A p \in 1..MaxPosters :
           PostAppend(p)
           => \E f \in BoardFiles :
                /\ LogOf(boards', f) = Append(LogOf(boards, f), posters[p].msg)
                /\ \A g \in BoardFiles \ {f} :
                     LogOf(boards', g) = LogOf(boards, g)
      /\ \A b \in BoardNames, l \in {NoTime, 1} :
           Read(b, NoSince, l) => boards' = boards
      /\ \A p \in 1..MaxPosters, b \in BoardNames :
           PostStart(p, b, "m1") => boards' = boards
      /\ \A f \in BoardFiles :
           ~IsPrefix(LogOf(boards, f), LogOf(boards', f))
           => \E b \in BoardNames : BoardClear(b) /\ bres'.status = "cleared"
      /\ \A b \in BoardNames :
           BoardClear(b)
           => /\ ReadMessages(boards', b, NoSince, DefaultLimit) = <<>>
              /\ bres'.status \in {"cleared", "ok"}
              /\ ReadMessages(boards, b, NoSince, DefaultLimit) = <<>>
                 => boards' = boards /\ bres'.status = "ok" ]_vars

\* C33 witness: both posts have landed, a clear has answered cleared and
\* no log is left.
C33_Witness ==
  /\ bres.op = "clear" /\ bres.status = "cleared" /\ posted = 2
  /\ boards = EmptyObject
  /\ \A p \in 1..MaxPosters : posters[p].pc = "idle"

\* the two names are one name, or the two names of the calls that
\* boardPath maps to one file name ("/" is replaced by "_")
SameSanitized(b1, b2) == b1 = b2 \/ {b1, b2} = {"a_b", "a/b"}

\* the messages of all logs that were posted to a board name for which
\* keep(name) holds, per file and in file order
PostedTo(files, keep(_)) ==
  [f \in BoardFiles |-> SelectSeq(LogOf(files, f), LAMBDA m : keep(m.board))]

\* C34 as stated: a read of board b1 returns no message posted to another
\* board name, and a clear of b1 removes no message posted to another
\* board name.
C34_Original ==
  [][ /\ \A b1 \in BoardNames, l \in {NoTime, 1} :
           Read(b1, NoSince, l)
           => \A i \in DOMAIN bres'.messages : bres'.messages[i].board = b1
      /\ \A b1 \in BoardNames :
           BoardClear(b1)
           => PostedTo(boards', LAMBDA b : b # b1)
              = PostedTo(boards, LAMBDA b : b # b1) ]_vars

\* C34: boards are isolated by sanitized name: a read of b1 returns only
\* messages posted to a name with the sanitized form of b1, and a clear of
\* b1 removes no message posted to a name with another sanitized form; two
\* names with one sanitized form, as "a/b" and "a_b", are one board.
C34_Amended ==
  [][ /\ \A b1 \in BoardNames, l \in {NoTime, 1} :
           Read(b1, NoSince, l)
           => \A i \in DOMAIN bres'.messages :
                SameSanitized(bres'.messages[i].board, b1)
      /\ \A b1 \in BoardNames :
           BoardClear(b1)
           => PostedTo(boards', LAMBDA b : ~SameSanitized(b, b1))
              = PostedTo(boards, LAMBDA b : ~SameSanitized(b, b1)) ]_vars

\* C34 witness: a read of board "c" has returned its message and not the
\* message in the log of "a_b".
C34_Witness ==
  /\ bres.op = "read" /\ bres.board = "c" /\ Len(bres.messages) = 1
  /\ bres.messages[1].board = "c"
  /\ Len(LogOf(boards, "a_b")) = 1

(***************************************************************************)
(* workflow_run: engine-level exceptions.                                  *)
(***************************************************************************)
\* the step ends a call at a checkpoint write: the write threw
CallEndsAtSave == wrun.pc = "save" /\ wrun'.pc = "idle" /\ wruns' = wruns

\* the exception is answered with an error result, and the checkpoint file
\* has status failed and the key _workflow in failed
AnsweredAndPersisted ==
  /\ wres'.status = "error"
  /\ wfile' # NoCheckpoint
  /\ wfile'.status = "failed"
  /\ "_workflow" \in DOMAIN wfile'.failed

\* C35: an exception of a checkpoint write during an admitted call, before,
\* between or after the step executions, is not thrown to the caller: the
\* call returns an error result, and the checkpoint is persisted with
\* status failed and the key _workflow in failed.
C35_EngineErrors ==
  [][ CallEndsAtSave => AnsweredAndPersisted ]_vars

\* C35 for a write inside the try block, when the write of the catch block
\* succeeds.
C35_InsideTry ==
  [][ SaveThrows => AnsweredAndPersisted ]_vars

(***************************************************************************)
(* executeStep: the polling loop.                                          *)
(***************************************************************************)
\* every step execution settles
PollSettles == (poll.pc # "idle") ~> (poll.pc = "idle")

\* the loop is left without a result only when the deadline has passed,
\* and the execution is then rejected with the timed-out error
PollTimesOut ==
  [][ (poll.pc = "check" /\ poll'.pc = "idle")
      => poll'.outcome = "timeout" /\ now >= poll.deadline ]_vars

Cycle ==
  <<WorkflowStep("A", {}), WorkflowStep("B", {"C"}), WorkflowStep("C", {"B"})>>

\* B depends on itself, C on B
SelfLoop ==
  <<WorkflowStep("A", {}), WorkflowStep("B", {"B"}), WorkflowStep("C", {"B"})>>

CyclicWorkflows == {Cycle, SelfLoop}

NextWorkflowCyclic ==
  \/ \E w \in {Chain} \cup CyclicWorkflows, r \in BOOLEAN :
       WorkflowStart("dag", w, r)
  \/ SaveCheckpoint
  \/ \E n \in {"A", "B", "C"}, o \in {"fulfilled", "rejected"} :
       StepSettles(n, o)
  \/ DagRound
  \/ DagRecord
  \/ WorkflowReturn

SpecWorkflowCyclic == Init /\ [][NextWorkflowCyclic]_vars

\* the names of the steps that a run in which every execution succeeds gets
\* to, after n rounds from the set 'got'
RECURSIVE Reachable(_, _, _)
Reachable(stepList, got, n) ==
  IF n = 0 THEN got
  ELSE Reachable(stepList,
         got \cup {s.name : s \in {t \in Range(stepList) :
                                     t.dependsOn \subseteq got}},
         n - 1)

\* the names of the steps on a cycle of dependsOn and of the steps that
\* depend on them
Blocked(stepList) ==
  Range(StepNames(stepList)) \ Reachable(stepList, {}, Len(stepList))

\* a request with a cycle is admitted
CyclicAdmitted ==
  \A w \in CyclicWorkflows, r \in BOOLEAN :
    WorkflowStart("dag", w, r) => wrun'.pc = "save" /\ wrun'.steps = w

\* the call of a workflow with a cycle returns failed, has spawned no
\* blocked step, and leaves its checkpoint file
CyclicReturnsFailed ==
  (WorkflowReturn /\ wrun.steps \in CyclicWorkflows) =>
     /\ wres'.status = "failed"
     /\ wres'.hasCheckpoint
     /\ wfile' = wres'.checkpoint
     /\ wfile' # NoCheckpoint
     /\ Range(wspawn') \cap Blocked(wrun.steps) = {}

Falsy(v) == v = Undefined \/ v = ""

\* the loop that never looks at the existing tool names
SkipsIgnoringExisting(cfg, existing) ==
  \/ Falsy(cfg.name) \/ Falsy(cfg.description)
  \/ Falsy(cfg.endpoint) /\ Falsy(cfg.script)

\* createCustomTools: the three tests of the loop that end in 'continue'
Skips(cfg, existing) ==
  \/ Falsy(cfg.name) \/ Falsy(cfg.description)
  \/ cfg.name \in existing
  \/ Falsy(cfg.endpoint) /\ Falsy(cfg.script)

\* createSingleCustomTool: the tool of a config; execute takes the endpoint
\* when there is one, otherwise the script
CreateSingleCustomTool(cfg) ==
  [label |-> "Custom", name |-> cfg.name, description |-> cfg.description,
   mode |-> IF ~Falsy(cfg.endpoint) THEN "http"
            ELSE IF ~Falsy(cfg.script) THEN "script" ELSE "error",
   cfg |-> cfg]

\* createCustomTools: for (const cfg of configs) { ...; tools.push(...) }
RECURSIVE CustomTools(_, _)
CustomTools(configs, existing) ==
  IF configs = <<>> THEN <<>>
  ELSE IF Skips(Head(configs), existing)
       THEN CustomTools(Tail(configs), existing)
  ELSE <<CreateSingleCustomTool(Head(configs))>>
         \o CustomTools(Tail(configs), existing)

\* the configs of the calls
CustomToolConfigs ==
  [name : {Undefined, "", "lookup", "read"}, description : {Undefined, "d"},
   endpoint : {Undefined, "", "url"}, script : {Undefined, "sh"}]

\* the lists of configs of the calls; options?.customToolConfigs ?? [] makes
\* a call without the option a call with the empty list
ConfigLists == UNION {[1..n -> CustomToolConfigs] : n \in 0..MaxConfigs}

\* the sets of existing tool names; options?.existingToolNames ?? new Set()
ExistingToolNames == {{}, {"read"}}

CreateCustomTools(configs, existing) ==
  /\ ctools.pc = "idle"
  /\ ctools' = [pc |-> "returned", configs |-> configs,
                existing |-> existing,
                tools |-> CustomTools(configs, existing)]
  /\ UNCHANGED <<now, qvars, steps, calls, kvars, bvars, wvars, poll, tmpl>>

NextTools ==
  /\ ctools.pc = "idle"
  /\ \E configs \in ConfigLists, existing \in ExistingToolNames :
       CreateCustomTools(configs, existing)

SpecTools == Init /\ [][NextTools]_vars

\* a config has the field: it is there and not the empty string
HasField(v) == v # Undefined /\ v # ""

\* the configs the statement asks a tool for
Qualifies(cfg, existing) ==
  /\ HasField(cfg.name)
  /\ HasField(cfg.description)
  /\ HasField(cfg.endpoint) \/ HasField(cfg.script)
  /\ cfg.name \notin existing

\* C38: the tools returned are, in the order of the configs, one tool for
\* each config that has a name, a description and an endpoint or a script
\* and whose name is not an existing tool name, and no others; no returned
\* tool has an existing tool name
C38_CustomTools ==
  ctools.pc = "returned" =>
    LET want == SelectSeq(ctools.configs,
                          LAMBDA c : Qualifies(c, ctools.existing))
    IN /\ Len(ctools.tools) = Len(want)
       /\ \A i \in DOMAIN want :
            /\ ctools.tools[i].cfg = want[i]
            /\ ctools.tools[i].name = want[i].name
            /\ ctools.tools[i].description = want[i].description
       /\ \A t \in Range(ctools.tools) : t.name \notin ctools.existing

\* a call with two complete configs, the first with the name of an existing
\* tool, has returned the tool of the second only
C38_Witness ==
  /\ ctools.pc = "returned"
  /\ Len(ctools.configs) = 2
  /\ \A i \in 1..2 : /\ HasField(ctools.configs[i].name)
                     /\ HasField(ctools.configs[i].description)
                     /\ HasField(ctools.configs[i].script)
  /\ ctools.configs[1].name \in ctools.existing
  /\ Len(ctools.tools) = 1
  /\ ctools.tools[1].name = ctools.configs[2].name

(***************************************************************************)
(* SpecTemplate: session_template apply, one call at a time.  The call     *)
(* looks the template up in the config, patches the session's model, then  *)
(* its thinking level; each patch is a gateway call that is fulfilled or   *)
(* rejected.                                                               *)
(***************************************************************************)
\* session.templates of the config: a template with a model and a thinking
\* level, one with thinking off only, one with a model only, and one with
\* neither
SessionTemplates ==
  [fast |-> [model |-> "m1", thinking |-> "low"],
   quiet |-> [model |-> Undefined, thinking |-> "off"],
   heavy |-> [model |-> "m2", thinking |-> Undefined],
   plain |-> [model |-> Undefined, thinking |-> Undefined]]

\* the template argument of the calls
TemplateNames == DOMAIN SessionTemplates \cup {"missing", "constructor"}

\* the sessionKey argument, and the session key of the calling agent
KeyParams == {Undefined, "s1"}
AgentKeys == {Undefined, "", "main"}

\* templates[templateName], where templates is a plain object when the
\* config has session.templates: an own template, a value inherited from
\* Object.prototype (truthy, without model or thinking), or undefined
TemplateLookup(defined, name) ==
  IF ~defined THEN [kind |-> "undefined"]
  ELSE IF name \in DOMAIN SessionTemplates
       THEN [kind |-> "own", model |-> SessionTemplates[name].model,
             thinking |-> SessionTemplates[name].thinking]
  ELSE IF name \in InheritedKeys
       THEN [kind |-> "inherited", model |-> Undefined,
             thinking |-> Undefined]
  ELSE [kind |-> "undefined"]

\* readStringParam(params, "sessionKey") ?? opts?.agentSessionKey
ResolveSessionKey(keyParam, agentKey) ==
  IF keyParam # Undefined THEN keyParam ELSE agentKey

\* callGateway({method: "sessions.patch", params: {key, model}})
ModelPatch(key, model) ==
  [method |-> "sessions.patch", key |-> key, field |-> "model",
   value |-> model]

\* callGateway({method: "sessions.patch", params: {key, thinkingLevel}}):
\* tmpl.thinking === "off" ? null : tmpl.thinking
ThinkingPatch(key, thinking) ==
  [method |-> "sessions.patch", key |-> key, field |-> "thinkingLevel",
   value |-> IF thinking = "off" THEN "null" ELSE thinking]

\* apply, from 'if (sessionKey && tmpl.thinking)' on: the thinking patch is
\* issued, or the call returns
ToThinking(t) ==
  IF ~Falsy(t.sessionKey) /\ ~Falsy(t.thinking)
  THEN [t EXCEPT !.pc = "thinking_wait",
                 !.gateway = Append(@, ThinkingPatch(t.sessionKey, t.thinking))]
  ELSE [t EXCEPT !.pc = "idle", !.status = "applied"]

\* apply, from 'if (sessionKey && tmpl.model)' on: the model patch is
\* issued, or the call goes on to the thinking level
ToModel(t) ==
  IF ~Falsy(t.sessionKey) /\ ~Falsy(t.model)
  THEN [t EXCEPT !.pc = "model_wait",
                 !.gateway = Append(@, ModelPatch(t.sessionKey, t.model))]
  ELSE ToThinking(t)

\* the catch that takes a rejected model patch for non-fatal
OnModelRejectedGoesOn(t) == ToThinking([t EXCEPT !.rejected = @ \cup {"model"}])

\* apply: the catch of the model patch returns an error result
OnModelRejected(t) ==
  [t EXCEPT !.pc = "idle", !.status = "error", !.rejected = @ \cup {"model"}]

\* apply, up to its first await
Apply(defined, name, keyParam, agentKey) ==
  /\ tmpl.pc = "idle"
  /\ tmpl.runs < MaxApplies
  /\ LET found == TemplateLookup(defined, name)
         call == [NoApply EXCEPT !.runs = tmpl.runs + 1,
                                 !.defined = defined, !.template = name,
                                 !.keyParam = keyParam,
                                 !.agentKey = agentKey,
                                 !.sessionKey =
                                    ResolveSessionKey(keyParam, agentKey)]
     IN IF found.kind = "undefined"
        THEN tmpl' = [call EXCEPT !.status = "error"]
        ELSE tmpl' = ToModel([call EXCEPT !.model = found.model,
                                          !.thinking = found.thinking])
  /\ UNCHANGED <<now, qvars, steps, calls, kvars, bvars, wvars, poll, ctools>>

\* the model patch settles
ModelPatchSettles(fulfilled) ==
  /\ tmpl.pc = "model_wait"
  /\ tmpl' = IF fulfilled
             THEN ToThinking([tmpl EXCEPT !.applied = Append(@, "model")])
             ELSE OnModelRejected(tmpl)
  /\ UNCHANGED <<now, qvars, steps, calls, kvars, bvars, wvars, poll, ctools>>

\* the thinking patch settles; its rejection is swallowed
ThinkingPatchSettles(fulfilled) ==
  /\ tmpl.pc = "thinking_wait"
  /\ tmpl' = IF fulfilled
             THEN [tmpl EXCEPT !.pc = "idle", !.status = "applied",
                               !.applied = Append(@, "thinking")]
             ELSE [tmpl EXCEPT !.pc = "idle", !.status = "applied",
                               !.rejected = @ \cup {"thinking"}]
  /\ UNCHANGED <<now, qvars, steps, calls, kvars, bvars, wvars, poll, ctools>>

NextTemplate ==
  \/ \E d \in BOOLEAN, n \in TemplateNames, k \in KeyParams, a \in AgentKeys :
       Apply(d, n, k, a)
  \/ \E f \in BOOLEAN : ModelPatchSettles(f)
  \/ \E f \in BOOLEAN : ThinkingPatchSettles(f)

SpecTemplate == Init /\ [][NextTemplate]_vars

\* the positions of the patches of a field among the gateway calls
PatchesOf(field) == {i \in DOMAIN tmpl.gateway : tmpl.gateway[i].field = field}

\* the config defines the template of the call
TemplateDefined == tmpl.defined /\ tmpl.template \in DOMAIN SessionTemplates

\* the call has a session key: the argument or the agent's, not empty
HasSessionKey ==
  \/ tmpl.keyParam \notin {Undefined, ""}
  \/ tmpl.keyParam = Undefined /\ tmpl.agentKey \notin {Undefined, ""}

\* C39: the model patch is issued before the thinking patch; when the model
\* patch fails the result is an error and no thinking patch is issued;
\* when only the thinking patch fails the result is applied and its applied
\* list has no thinking entry; an unknown template or a call without
\* session key makes no gateway call
C39_Apply ==
  /\ \A i \in PatchesOf("model"), j \in PatchesOf("thinkingLevel") : i < j
  /\ "model" \in tmpl.rejected =>
       /\ tmpl.pc = "idle"
       /\ tmpl.status = "error"
       /\ PatchesOf("thinkingLevel") = {}
  /\ tmpl.rejected = {"thinking"} =>
       /\ tmpl.pc = "idle"
       /\ tmpl.status = "applied"
       /\ "thinking" \notin Range(tmpl.applied)
  /\ (tmpl.runs > 0 /\ (~TemplateDefined \/ ~HasSessionKey)) =>
       /\ tmpl.gateway = <<>>
       /\ tmpl.pc = "idle"

\* a call whose model patch succeeded and whose thinking patch failed has
\* returned applied with the model alone
C39_Witness ==
  /\ tmpl.pc = "idle"
  /\ tmpl.status = "applied"
  /\ tmpl.rejected = {"thinking"}
  /\ tmpl.applied = <<"model">>
  /\ Len(tmpl.gateway) = 2
  /\ tmpl.gateway[1].field = "model"
  /\ tmpl.gateway[2].field = "thinkingLevel"

(***************************************************************************)
(* workflow_run: the result of a call that ends done.                      *)
(***************************************************************************)
\* the result reports a clean success
CleanDone(res) ==
  /\ res.stepsFailed = 0
  /\ res.stepsCompleted = res.totalSteps
  /\ ~res.hasFailures
  /\ ~res.hasCheckpoint

\* C40: a result with status done reports stepsFailed = 0 and
\* stepsCompleted = totalSteps and has neither a failures field nor a
\* checkpoint field, whether the run was fresh or resumed from a failed
\* checkpoint.
C40_DoneIsClean == wres.status = "done" => CleanDone(wres)

\* C40 for the calls that adopt no checkpoint, where it holds when no step
\* name is a property of Object.prototype.
C40_FreshCalls == (wres.status = "done" /\ ~wres.resumed) => CleanDone(wres)

====
